---------------------------- MODULE Spec2Model ----------------------------
(***************************************************************************)
(* Model of StandaloneSanskritAnalyzer                                     *)
(* (src/semantic-app/src/standalone_sanskrit_system.py).                   *)
(*                                                                         *)
(* A Python str is a sequence of Unicode code points (naturals), so that   *)
(* substring, prefix, suffix, lower() and split() are computed on the      *)
(* characters the code sees.  Confidences are counted in tenths (0.3 is 3, *)
(* 0.4 is 4) and query scores in halves (2 is 4, 1.5 is 3, 1 is 2).         *)
(***************************************************************************)
EXTENDS Integers, Sequences, FiniteSets, TLC

VARIABLES triples, analyses, graph, ret, tables, hymns

vars == <<triples, analyses, graph, ret, tables, hymns>>

---------------------------------------------------------------------------
(* Characters the code names.                                              *)
VIRAMA == 2381
DANDA == 2404
DOUBLE_DANDA == 2405
SPACE == 32

(* Characters matched by \s in a str pattern / stripped by str.split().    *)
Whitespace ==
    {9, 10, 11, 12, 13, 28, 29, 30, 31, SPACE, 133, 160, 5760}
    \cup (8192..8202) \cup {8232, 8233, 8239, 8287, 12288}

---------------------------------------------------------------------------
(* Python str helpers.                                                     *)

(* needle in hay *)
IsSubstring(needle, hay) ==
    \E i \in 0..(Len(hay) - Len(needle)) :
        \A k \in 1..Len(needle) : hay[i + k] = needle[k]

(* s.startswith(prefix) *)
startswith(s, prefix) ==
    /\ Len(prefix) <= Len(s)
    /\ \A k \in 1..Len(prefix) : s[k] = prefix[k]

(* s.endswith(suffix) *)
endswith(s, suffix) ==
    /\ Len(suffix) <= Len(s)
    /\ \A k \in 1..Len(suffix) : s[Len(s) - Len(suffix) + k] = suffix[k]

(* s.replace(c, '') for a one-character c *)
RECURSIVE replace(_, _)
replace(s, c) ==
    IF s = <<>> THEN <<>>
    ELSE IF Head(s) = c THEN replace(Tail(s), c)
    ELSE <<Head(s)>> \o replace(Tail(s), c)

(* s.lower(): A..Z map to a..z; Devanagari has no case *)
lower(s) == [k \in 1..Len(s) |-> IF s[k] \in 65..90 THEN s[k] + 32 ELSE s[k]]

(* The maximal runs of characters of s that are not in seps, in order:     *)
(* re.findall('[^...]+', s) and, with seps = Whitespace, s.split().        *)
RECURSIVE Runs(_, _, _)
Runs(s, seps, cur) ==
    IF s = <<>> THEN (IF cur = <<>> THEN <<>> ELSE <<cur>>)
    ELSE IF Head(s) \in seps
         THEN (IF cur = <<>> THEN <<>> ELSE <<cur>>) \o Runs(Tail(s), seps, <<>>)
         ELSE Runs(Tail(s), seps, Append(cur, Head(s)))

(* s.split(' '): cut at every single space, empty pieces kept *)
RECURSIVE SplitOn(_, _)
SplitOn(s, cur) ==
    IF s = <<>> THEN <<cur>>
    ELSE IF Head(s) = SPACE THEN <<cur>> \o SplitOn(Tail(s), <<>>)
    ELSE SplitOn(Tail(s), Append(cur, Head(s)))

split_OnSpace(s) == SplitOn(s, <<>>)

(* s.split() *)
split(s) == Runs(s, Whitespace, <<>>)

(* the pattern without the two dandas: a split on whitespace only *)
findall_NoDanda(sentence) == Runs(sentence, Whitespace, <<>>)

(* re.findall(r'[^\s<danda><double danda>]+', sentence) *)
findall(sentence) == Runs(sentence, Whitespace \cup {DANDA, DOUBLE_DANDA}, <<>>)

---------------------------------------------------------------------------
(* The knowledge base of _initialize_vedic_knowledge, in dict order.       *)

vedic_vocabulary ==
    << [key |-> <<2309, 2327, 2381, 2344, 2367>>, meaning |-> "fire god, divine fire", domain |-> "fire"],
       [key |-> <<2311, 2344, 2381, 2342, 2381, 2352>>, meaning |-> "king of gods, storm god", domain |-> "storm"],
       [key |-> <<2357, 2352, 2369, 2339>>, meaning |-> "god of waters, cosmic order", domain |-> "water"],
       [key |-> <<2360, 2379, 2350>>, meaning |-> "sacred drink, moon god", domain |-> "soma"],
       [key |-> <<2360, 2370, 2352, 2381, 2351>>, meaning |-> "sun god", domain |-> "sun"],
       [key |-> <<2357, 2366, 2351>>, meaning |-> "wind god", domain |-> "air"],
       [key |-> <<2350, 2367, 2340, 2381, 2352>>, meaning |-> "god of friendship, contracts", domain |-> "social"],
       [key |-> <<2351, 2332, 2381, 2334>>, meaning |-> "sacrifice, ritual offering", domain |-> "ritual"],
       [key |-> <<2361, 2379, 2350>>, meaning |-> "fire offering", domain |-> "ritual"],
       [key |-> <<2361, 2357, 2367>>, meaning |-> "oblation, offering", domain |-> "ritual"],
       [key |-> <<2350, 2344, 2381, 2340, 2381, 2352>>, meaning |-> "sacred formula, hymn", domain |-> "ritual"],
       [key |-> <<2360, 2381, 2340, 2379, 2350>>, meaning |-> "praise, hymn", domain |-> "ritual"],
       [key |-> <<2361, 2379, 2340, 2371>>, meaning |-> "priest who invokes", domain |-> "ritual"],
       [key |-> <<2315, 2340, 2381, 2357, 2367, 2332, 2381>>, meaning |-> "ritual priest", domain |-> "ritual"],
       [key |-> <<2352, 2367, 2340>>, meaning |-> "cosmic order, truth", domain |-> "philosophy"],
       [key |-> <<2360, 2340, 2381>>, meaning |-> "being, truth", domain |-> "philosophy"],
       [key |-> <<2342, 2381, 2351, 2369>>, meaning |-> "heaven, sky", domain |-> "cosmology"],
       [key |-> <<2346, 2371, 2341, 2367, 2357, 2368>>, meaning |-> "earth", domain |-> "cosmology"],
       [key |-> <<2310, 2325, 2366, 2358>>, meaning |-> "space, ether", domain |-> "cosmology"],
       [key |-> <<2325, 2354, 2381, 2346>>, meaning |-> "cosmic age", domain |-> "time"] >>

verb_roots ==
    << [root |-> <<2327, 2350, 2381>>, meaning |-> "to go, move"],
       [root |-> <<2309, 2360, 2381>>, meaning |-> "to be, exist"],
       [root |-> <<2349, 2370>>, meaning |-> "to become, be"],
       [root |-> <<2325, 2371>>, meaning |-> "to do, make"],
       [root |-> <<2342, 2366>>, meaning |-> "to give"],
       [root |-> <<2351, 2332, 2381>>, meaning |-> "to sacrifice, worship"],
       [root |-> <<2360, 2381, 2340, 2369>>, meaning |-> "to praise"],
       [root |-> <<2327, 2376>>, meaning |-> "to sing"],
       [root |-> <<2357, 2330, 2381>>, meaning |-> "to speak"],
       [root |-> <<2332, 2367>>, meaning |-> "to conquer, win"],
       [root |-> <<2311>>, meaning |-> "to go"],
       [root |-> <<2361, 2344, 2381>>, meaning |-> "to strike, kill"],
       [root |-> <<2346, 2366>>, meaning |-> "to protect"],
       [root |-> <<2343, 2366>>, meaning |-> "to place, hold"],
       [root |-> <<2311, 2337, 2381>>, meaning |-> "to praise, invoke"] >>

(* karta, karma, karana, sampradana, apadana, adhikarana, sambandha *)
karaka_relations ==
    << [key |-> <<2325, 2352, 2381, 2340, 2366>>, meaning |-> "agent (who does the action)"],
       [key |-> <<2325, 2352, 2381, 2350>>, meaning |-> "patient (what receives action)"],
       [key |-> <<2325, 2352, 2339>>, meaning |-> "instrument (means of action)"],
       [key |-> <<2360, 2350, 2381, 2346, 2381, 2352, 2342, 2366, 2344>>, meaning |-> "recipient (to whom given)"],
       [key |-> <<2309, 2346, 2366, 2342, 2366, 2344>>, meaning |-> "source (from which separated)"],
       [key |-> <<2309, 2343, 2367, 2325, 2352, 2339>>, meaning |-> "location/time (where/when)"],
       [key |-> <<2360, 2350, 2381, 2348, 2344, 2381, 2343>>, meaning |-> "possessor (whose, of what)"] >>

(* The case-ending lists of _initialize_morphological_patterns, in dict order. *)
case_endings ==
    << [case |-> "nominative", endings |-> << <<2309, 2307>>, <<2310, 2307>>, <<2366>>, <<2311, 2307>>, <<2368>>, <<2313, 2307>>, <<2314, 2307>> >>],
       [case |-> "accusative", endings |-> << <<2309, 2350, 2381>>, <<2310, 2350, 2381>>, <<2311, 2350, 2381>>, <<2368, 2350, 2381>>, <<2313, 2350, 2381>>, <<2314, 2350, 2381>> >>],
       [case |-> "instrumental", endings |-> << <<2319, 2344>>, <<2310>>, <<2311, 2339, 2366>>, <<2368, 2339, 2366>>, <<2313, 2339, 2366>>, <<2314, 2339, 2366>> >>],
       [case |-> "dative", endings |-> << <<2310, 2351>>, <<2319>>, <<2351, 2375>> >>],
       [case |-> "ablative", endings |-> << <<2310, 2340, 2381>>, <<2360, 2381, 2350, 2366, 2340, 2381>>, <<2340, 2381>> >>],
       [case |-> "locative", endings |-> << <<2375>>, <<2311>>, <<2324>>, <<2360, 2369>> >>] >>

(* word in self.vedic_vocabulary / self.vedic_vocabulary[word] *)
InVocabulary(word) == \E i \in 1..Len(vedic_vocabulary) : vedic_vocabulary[i].key = word

VocabularyEntry(word) ==
    vedic_vocabulary[CHOOSE i \in 1..Len(vedic_vocabulary) : vedic_vocabulary[i].key = word]

---------------------------------------------------------------------------
(* analyze_morphology                                                      *)

(* analysis['confidence'] += 0.3 and += 0.4, in tenths *)
RootBonus == 3
CaseBonus == 4

(* the test without its second half: the root must be a substring *)
RootMatches_SubstringOnly(root, word) == IsSubstring(root, word)

(* root in word or word.startswith(root.replace(virama, '')) *)
RootMatches(root, word) ==
    IsSubstring(root, word) \/ startswith(word, replace(root, VIRAMA))

(* for root, meaning in self.verb_roots.items(): ... *)
RECURSIVE RootScan(_, _, _)
RootScan(word, i, analysis) ==
    IF i > Len(verb_roots) THEN analysis
    ELSE IF RootMatches(verb_roots[i].root, word)
         THEN RootScan(word, i + 1,
                [analysis EXCEPT
                   !.possible_roots = Append(@, [root |-> verb_roots[i].root,
                                                 meaning |-> verb_roots[i].meaning,
                                                 type |-> "verb"]),
                   !.confidence = @ + RootBonus])
         ELSE RootScan(word, i + 1, analysis)

(* the inner loop: some ending of the list is a suffix of the word; the    *)
(* break leaves the inner loop only                                        *)
AnyEndingMatches(endings, word) ==
    \E k \in 1..Len(endings) : endswith(word, endings[k])

(* for case, endings in self.case_endings.items(): ... *)
RECURSIVE CaseScan(_, _, _)
CaseScan(word, i, analysis) ==
    IF i > Len(case_endings) THEN analysis
    ELSE IF AnyEndingMatches(case_endings[i].endings, word)
         THEN CaseScan(word, i + 1,
                [analysis EXCEPT !.case = case_endings[i].case,
                                 !.confidence = @ + CaseBonus])
         ELSE CaseScan(word, i + 1, analysis)

(* the accumulator started at -0.1 instead of 0.0 *)
analyze_morphology_FromBelow(word) ==
    CaseScan(word, 1,
        RootScan(word, 1,
            [word |-> word, possible_roots |-> <<>>, case |-> "unknown",
             number |-> "unknown", confidence |-> -1]))

analyze_morphology(word) ==
    CaseScan(word, 1,
        RootScan(word, 1,
            [word |-> word, possible_roots |-> <<>>, case |-> "unknown",
             number |-> "unknown", confidence |-> 0]))

---------------------------------------------------------------------------
(* extract_semantic_triples                                                *)

(* main_verb = None / verb_root = None: no str has a negative code point   *)
None == << -1 >>

(* 'stu', the praise default; 'as', the default root; the str 'unknown'    *)
PraiseRoot == <<2360, 2381, 2340, 2369>>
DefaultRoot == <<2309, 2360, 2381>>
UnknownWord == <<117, 110, 107, 110, 111, 119, 110>>

(* the list with a fifth pattern, 'sat', that is no verb root *)
PraisePatterns_WithSat ==
    << <<2311, 2337, 2381>>, <<2360, 2381, 2340, 2369>>, <<2351, 2332, 2381>>, <<2327, 2376>>,
       <<2360, 2340, 2381>> >>

(* ['id', 'stu', 'yaj', 'gai'] of the fallback scan *)
PraisePatterns ==
    << <<2311, 2337, 2381>>, <<2360, 2381, 2340, 2369>>, <<2351, 2332, 2381>>, <<2327, 2376>> >>

(* the inner loop without its break: the last root of the word is kept *)
RECURSIVE VerbScan_LastRoot(_, _)
VerbScan_LastRoot(words, i) ==
    IF i > Len(words) THEN [main_verb |-> None, verb_root |-> None]
    ELSE LET morphology == analyze_morphology(words[i])
         IN  IF morphology.possible_roots # <<>>
             THEN [main_verb |-> words[i],
                   verb_root |-> morphology.possible_roots[Len(morphology.possible_roots)].root]
             ELSE VerbScan_LastRoot(words, i + 1)

(* first loop: the first word with a possible root of type 'verb', and its *)
(* first root                                                              *)
RECURSIVE VerbScan(_, _)
VerbScan(words, i) ==
    IF i > Len(words) THEN [main_verb |-> None, verb_root |-> None]
    ELSE LET morphology == analyze_morphology(words[i])
         IN  IF morphology.possible_roots # <<>>
             THEN [main_verb |-> words[i],
                   verb_root |-> morphology.possible_roots[1].root]
             ELSE VerbScan(words, i + 1)

(* second loop: the first word containing one of the praise patterns *)
RECURSIVE PraiseScan(_, _)
PraiseScan(words, i) ==
    IF i > Len(words) THEN [main_verb |-> None, verb_root |-> None]
    ELSE IF \E k \in 1..Len(PraisePatterns) : IsSubstring(PraisePatterns[k], words[i])
         THEN [main_verb |-> words[i], verb_root |-> PraiseRoot]
         ELSE PraiseScan(words, i + 1)

(* the default of line 233 anchoring on the last word instead of the first *)
FindMainVerb_LastWord(words) ==
    LET first == VerbScan(words, 1)
        second == IF first.verb_root = None THEN PraiseScan(words, 1) ELSE first
    IN  IF second.verb_root = None
        THEN [main_verb |-> IF words # <<>> THEN words[Len(words)] ELSE UnknownWord,
              verb_root |-> DefaultRoot]
        ELSE second

(* lines 205-233: the anchor and the verb root of a token list *)
FindMainVerb(words) ==
    LET first == VerbScan(words, 1)
        second == IF first.verb_root = None THEN PraiseScan(words, 1) ELSE first
    IN  IF second.verb_root = None
        THEN [main_verb |-> IF words # <<>> THEN words[1] ELSE UnknownWord,
              verb_root |-> DefaultRoot]
        ELSE second

(* the branches of the dative and the instrumental exchanged *)
KarakaOf_Exchanged(case) ==
    IF case = "accusative" THEN <<2325, 2352, 2381, 2350>>
    ELSE IF case = "dative" THEN <<2325, 2352, 2339>>
    ELSE IF case = "instrumental" THEN <<2360, 2350, 2381, 2346, 2381, 2352, 2342, 2366, 2344>>
    ELSE IF case = "ablative" THEN <<2309, 2346, 2366, 2342, 2366, 2344>>
    ELSE IF case = "locative" THEN <<2309, 2343, 2367, 2325, 2352, 2339>>
    ELSE <<2325, 2352, 2381, 2340, 2366>>

(* lines 242-253: the karaka of a guessed case *)
KarakaOf(case) ==
    IF case = "accusative" THEN <<2325, 2352, 2381, 2350>>
    ELSE IF case = "instrumental" THEN <<2325, 2352, 2339>>
    ELSE IF case = "dative" THEN <<2360, 2350, 2381, 2346, 2381, 2352, 2342, 2366, 2344>>
    ELSE IF case = "ablative" THEN <<2309, 2346, 2366, 2342, 2366, 2344>>
    ELSE IF case = "locative" THEN <<2309, 2343, 2367, 2325, 2352, 2339>>
    ELSE <<2325, 2352, 2381, 2340, 2366>>

(* lines 240-267: the SanskritTriple built for one word *)
MakeTriple(word, verb_root) ==
    LET morphology == analyze_morphology(word)
    IN  [verb_root |-> verb_root,
         karaka |-> KarakaOf(morphology.case),
         word |-> word,
         devanagari |-> word,
         meaning |-> IF InVocabulary(word) THEN VocabularyEntry(word).meaning ELSE "",
         confidence |-> morphology.confidence]

(* the loop without its continue: the anchor is analysed like any word *)
IsSkipped_Never(word, main_verb) == FALSE

(* the test inverted: only the anchor gets a triple *)
IsSkipped_Inverted(word, main_verb) == word # main_verb

(* if word == main_verb: continue *)
IsSkipped(word, main_verb) == word = main_verb

(* lines 236-270: for word in words *)
RECURSIVE TripleLoop(_, _, _)
TripleLoop(words, i, verb) ==
    IF i > Len(words) THEN <<>>
    ELSE IF IsSkipped(words[i], verb.main_verb)
         THEN TripleLoop(words, i + 1, verb)
         ELSE <<MakeTriple(words[i], verb.verb_root)>> \o TripleLoop(words, i + 1, verb)

(* the list the call returns; each triple is also appended to self.triples *)
extract_semantic_triples(sentence) ==
    LET words == findall(sentence)
    IN  TripleLoop(words, 1, FindMainVerb(words))

---------------------------------------------------------------------------
(* classify_semantic_field                                                 *)

(* field_scores[domain] += 1 on a dict kept in insertion order *)
Tally(field_scores, domain) ==
    IF \E k \in 1..Len(field_scores) : field_scores[k].domain = domain
    THEN [k \in 1..Len(field_scores) |->
            IF field_scores[k].domain = domain
            THEN [field_scores[k] EXCEPT !.count = @ + 1]
            ELSE field_scores[k]]
    ELSE Append(field_scores, [domain |-> domain, count |-> 1])

RECURSIVE FieldScores(_, _, _)
FieldScores(words, i, field_scores) ==
    IF i > Len(words) THEN field_scores
    ELSE IF InVocabulary(words[i])
         THEN FieldScores(words, i + 1, Tally(field_scores, VocabularyEntry(words[i]).domain))
         ELSE FieldScores(words, i + 1, field_scores)

(* the maximum taken with >=: on a tie the domain encountered last *)
classify_semantic_field_LastMax(sentence) ==
    LET field_scores == FieldScores(findall(sentence), 1, <<>>)
    IN  IF field_scores # <<>>
        THEN field_scores[CHOOSE k \in 1..Len(field_scores) :
                /\ \A j \in 1..Len(field_scores) : field_scores[j].count <= field_scores[k].count
                /\ \A j \in (k + 1)..Len(field_scores) :
                      field_scores[j].count < field_scores[k].count].domain
        ELSE "general"

(* max(field_scores, key=field_scores.get): the first key with the maximum *)
classify_semantic_field(sentence) ==
    LET field_scores == FieldScores(findall(sentence), 1, <<>>)
    IN  IF field_scores # <<>>
        THEN field_scores[CHOOSE k \in 1..Len(field_scores) :
                /\ \A j \in 1..Len(field_scores) : field_scores[j].count <= field_scores[k].count
                /\ \A j \in 1..(k - 1) : field_scores[j].count < field_scores[k].count].domain
        ELSE "general"

---------------------------------------------------------------------------
(* analyze_rigveda_verse                                                   *)

RECURSIVE SumConfidence(_)
SumConfidence(ts) ==
    IF ts = <<>> THEN 0 ELSE Head(ts).confidence + SumConfidence(Tail(ts))

(* the sum divided by the number of words of the verse, not of triples *)
MakeAnalysis_PerWord(sanskrit, reference, ts) ==
    [reference |-> reference,
     sanskrit |-> sanskrit,
     triples |-> ts,
     semantic_field |-> classify_semantic_field(sanskrit),
     entities_found |-> Cardinality({k \in 1..Len(ts) : InVocabulary(ts[k].word)}),
     confidence |-> IF ts # <<>>
                    THEN [num |-> SumConfidence(ts), den |-> Len(findall(sanskrit))]
                    ELSE [num |-> 0, den |-> 1]]

(* The analysis dict.  confidence is the mean sum/len kept as a fraction of *)
(* tenths; romanized and translation are carried through and not modelled. *)
MakeAnalysis(sanskrit, reference, ts) ==
    [reference |-> reference,
     sanskrit |-> sanskrit,
     triples |-> ts,
     semantic_field |-> classify_semantic_field(sanskrit),
     entities_found |-> Cardinality({k \in 1..Len(ts) : InVocabulary(ts[k].word)}),
     confidence |-> IF ts # <<>> THEN [num |-> SumConfidence(ts), den |-> Len(ts)]
                    ELSE [num |-> 0, den |-> 1]]

analyze_rigveda_verse(sanskrit, reference) ==
    MakeAnalysis(sanskrit, reference, extract_semantic_triples(sanskrit))

---------------------------------------------------------------------------
(* build_knowledge_graph                                                   *)

EmptyGraph ==
    [entities |-> [e \in {} |-> e], relationships |-> <<>>, domains |-> [d \in {} |-> d]]

(* the defaultdict factories *)
DefaultEntity == [verses |-> <<>>, relations |-> <<>>, domain |-> "unknown"]

EntityOf(g, entity) ==
    IF entity \in DOMAIN g.entities THEN g.entities[entity] ELSE DefaultEntity

BucketOf(g, domain) ==
    IF domain \in DOMAIN g.domains THEN g.domains[domain] ELSE <<>>

(* the truthiness test on the gloss inverted *)
Resolved_NoGloss(triple) == triple.meaning = "" /\ InVocabulary(triple.word)

(* if triple.meaning: if entity in self.vedic_vocabulary: *)
Resolved(triple) == triple.meaning # "" /\ InVocabulary(triple.word)

(* the verse appended only if the entity does not list it yet *)
AddTriple_Dedup(g, triple, verse_ref) ==
    LET entity == triple.word
        old == EntityOf(g, entity)
        domain == IF Resolved(triple) THEN VocabularyEntry(entity).domain ELSE old.domain
        new == [verses |-> IF \E k \in 1..Len(old.verses) : old.verses[k] = verse_ref
                           THEN old.verses ELSE Append(old.verses, verse_ref),
                relations |-> Append(old.relations, triple.karaka),
                domain |-> domain]
        relationship == [verb |-> triple.verb_root,
                         relation |-> triple.karaka,
                         entity |-> entity,
                         verse |-> verse_ref,
                         confidence |-> triple.confidence]
    IN  [entities |-> (entity :> new) @@ g.entities,
         relationships |-> Append(g.relationships, relationship),
         domains |-> IF Resolved(triple)
                     THEN (domain :> Append(BucketOf(g, domain), verse_ref)) @@ g.domains
                     ELSE g.domains]

(* the append of line 311 made for every triple, outside the two tests *)
AddTriple_AlwaysBucket(g, triple, verse_ref) ==
    LET entity == triple.word
        old == EntityOf(g, entity)
        domain == IF Resolved(triple) THEN VocabularyEntry(entity).domain ELSE old.domain
        new == [verses |-> Append(old.verses, verse_ref),
                relations |-> Append(old.relations, triple.karaka),
                domain |-> domain]
        relationship == [verb |-> triple.verb_root,
                         relation |-> triple.karaka,
                         entity |-> entity,
                         verse |-> verse_ref,
                         confidence |-> triple.confidence]
    IN  [entities |-> (entity :> new) @@ g.entities,
         relationships |-> Append(g.relationships, relationship),
         domains |-> (domain :> Append(BucketOf(g, domain), verse_ref)) @@ g.domains]

(* the relation appended only if the entity does not list it yet *)
AddTriple_RelationsSet(g, triple, verse_ref) ==
    LET entity == triple.word
        old == EntityOf(g, entity)
        domain == IF Resolved(triple) THEN VocabularyEntry(entity).domain ELSE old.domain
        new == [verses |-> Append(old.verses, verse_ref),
                relations |-> IF \E k \in 1..Len(old.relations) : old.relations[k] = triple.karaka
                              THEN old.relations ELSE Append(old.relations, triple.karaka),
                domain |-> domain]
        relationship == [verb |-> triple.verb_root,
                         relation |-> triple.karaka,
                         entity |-> entity,
                         verse |-> verse_ref,
                         confidence |-> triple.confidence]
    IN  [entities |-> (entity :> new) @@ g.entities,
         relationships |-> Append(g.relationships, relationship),
         domains |-> IF Resolved(triple)
                     THEN (domain :> Append(BucketOf(g, domain), verse_ref)) @@ g.domains
                     ELSE g.domains]

(* lines 301-321: the body of the inner loop, for one triple *)
AddTriple(g, triple, verse_ref) ==
    LET entity == triple.word
        old == EntityOf(g, entity)
        domain == IF Resolved(triple) THEN VocabularyEntry(entity).domain ELSE old.domain
        new == [verses |-> Append(old.verses, verse_ref),
                relations |-> Append(old.relations, triple.karaka),
                domain |-> domain]
        relationship == [verb |-> triple.verb_root,
                         relation |-> triple.karaka,
                         entity |-> entity,
                         verse |-> verse_ref,
                         confidence |-> triple.confidence]
    IN  [entities |-> (entity :> new) @@ g.entities,
         relationships |-> Append(g.relationships, relationship),
         domains |-> IF Resolved(triple)
                     THEN (domain :> Append(BucketOf(g, domain), verse_ref)) @@ g.domains
                     ELSE g.domains]

RECURSIVE AddTriples(_, _, _)
AddTriples(g, ts, verse_ref) ==
    IF ts = <<>> THEN g
    ELSE AddTriples(AddTriple(g, Head(ts), verse_ref), Tail(ts), verse_ref)

(* the analyses folded from the last to the first *)
RECURSIVE AddAnalyses_LastFirst(_, _)
AddAnalyses_LastFirst(g, as) ==
    IF as = <<>> THEN g
    ELSE AddAnalyses_LastFirst(
            AddTriples(g, as[Len(as)].triples, as[Len(as)].reference),
            SubSeq(as, 1, Len(as) - 1))

RECURSIVE AddAnalyses(_, _)
AddAnalyses(g, as) ==
    IF as = <<>> THEN g
    ELSE AddAnalyses(AddTriples(g, Head(as).triples, Head(as).reference), Tail(as))

build_knowledge_graph(as) == AddAnalyses(EmptyGraph, as)

---------------------------------------------------------------------------
(* query_knowledge_graph                                                   *)

(* score += 2, += 1.5, += 1, in halves; the [:10] of the return *)
EntityScore == 4
VerbScore == 3
RelationScore == 2
TopN == 10

(* the three tests chained with elif: only the first field that matches   *)
(* counts                                                                  *)
WordScore_FirstOnly(word, relationship) ==
    IF IsSubstring(word, lower(relationship.entity)) THEN EntityScore
    ELSE IF IsSubstring(word, lower(relationship.verb)) THEN VerbScore
    ELSE IF IsSubstring(word, lower(relationship.relation)) THEN RelationScore
    ELSE 0

(* the three tests of the inner loop, for one query word *)
WordScore(word, relationship) ==
      (IF IsSubstring(word, lower(relationship.entity)) THEN EntityScore ELSE 0)
    + (IF IsSubstring(word, lower(relationship.verb)) THEN VerbScore ELSE 0)
    + (IF IsSubstring(word, lower(relationship.relation)) THEN RelationScore ELSE 0)

RECURSIVE Score(_, _)
Score(query_words, relationship) ==
    IF query_words = <<>> THEN 0
    ELSE WordScore(Head(query_words), relationship) + Score(Tail(query_words), relationship)

(* the threshold written score >= 0: every relationship is kept *)
RECURSIVE Scored_KeepZero(_, _)
Scored_KeepZero(query_words, relationships) ==
    IF relationships = <<>> THEN <<>>
    ELSE LET score == Score(query_words, Head(relationships))
         IN  (IF score >= 0
              THEN <<[relationship |-> Head(relationships), score |-> score]>>
              ELSE <<>>) \o Scored_KeepZero(query_words, Tail(relationships))

(* lines 362-379: results, before sorting *)
RECURSIVE Scored(_, _)
Scored(query_words, relationships) ==
    IF relationships = <<>> THEN <<>>
    ELSE LET score == Score(query_words, Head(relationships))
         IN  (IF score > 0
              THEN <<[relationship |-> Head(relationships), score |-> score]>>
              ELSE <<>>) \o Scored(query_words, Tail(relationships))

(* sorted(results, key=score, reverse=True): stable, so an element goes     *)
(* after every element already placed whose score is not smaller            *)
(* an element placed before the elements of equal score: ties come out    *)
(* in reverse order                                                        *)
RECURSIVE Insert_BeforeTies(_, _)
Insert_BeforeTies(placed, x) ==
    IF placed = <<>> THEN <<x>>
    ELSE IF Head(placed).score > x.score
         THEN <<Head(placed)>> \o Insert_BeforeTies(Tail(placed), x)
         ELSE <<x>> \o placed

RECURSIVE Insert(_, _)
Insert(placed, x) ==
    IF placed = <<>> THEN <<x>>
    ELSE IF Head(placed).score >= x.score
         THEN <<Head(placed)>> \o Insert(Tail(placed), x)
         ELSE <<x>> \o placed

RECURSIVE SortFrom(_, _)
SortFrom(placed, rest) ==
    IF rest = <<>> THEN placed ELSE SortFrom(Insert(placed, Head(rest)), Tail(rest))

sorted(results) == SortFrom(<<>>, results)

(* results[:n] *)
Take(s, n) == SubSeq(s, 1, IF Len(s) < n THEN Len(s) ELSE n)

(* the query split without being lower-cased *)
query_knowledge_graph_NoLower(query, g) ==
    Take(sorted(Scored(split(query), g.relationships)), TopN)

query_knowledge_graph(query, g) ==
    Take(sorted(Scored(split(lower(query)), g.relationships)), TopN)

---------------------------------------------------------------------------
(* SanskritCorpusProcessor.tokenize_sanskrit (sanskrit_embeddings.py).     *)

(* DEVANAGARI_RANGE = (0x0900, 0x097F), VEDIC_EXTENSIONS_RANGE = (0xA8E0,  *)
(* 0xA8FF)                                                                 *)
DevanagariBlock == 2304..2431
VedicExtensions == 43232..43263

is_devanagari_text(text) ==
    \E k \in 1..Len(text) : text[k] \in DevanagariBlock \cup VedicExtensions

(* The characters \w does not match, among ASCII and whitespace: all but   *)
(* the digits, the letters and the underscore.  The romanized letters      *)
(* outside ASCII are word characters.                                      *)
NotWord ==
    ((0..127) \ ((48..57) \cup (65..90) \cup {95} \cup (97..122))) \cup Whitespace

(* re.findall(r'\b\w+\b', text): \w+ is greedy and both ends of a maximal  *)
(* run of word characters are word boundaries, so the matches are these    *)
(* runs                                                                    *)
findall_words(text) == Runs(text, NotWord, <<>>)

(* s.strip() *)
RECURSIVE lstrip(_)
lstrip(s) ==
    IF s # <<>> /\ Head(s) \in Whitespace THEN lstrip(Tail(s)) ELSE s

RECURSIVE rstrip(_)
rstrip(s) ==
    IF s # <<>> /\ s[Len(s)] \in Whitespace THEN rstrip(SubSeq(s, 1, Len(s) - 1)) ELSE s

strip(s) == rstrip(lstrip(s))

tokenize_sanskrit(text) ==
    LET tokens == IF is_devanagari_text(text) THEN findall(text) ELSE findall_words(text)
        stripped == [k \in 1..Len(tokens) |-> strip(tokens[k])]
        NonEmpty(token) == token # <<>>
    IN  SelectSeq(stripped, NonEmpty)

---------------------------------------------------------------------------
(* RigVedaCorpusProcessor.load_corpus (rigveda_integration.py).  A record  *)
(* of the corpus file is a dict: a function whose domain is the keys it    *)
(* holds.                                                                  *)

(* hymn_data.get(key, default) *)
get(hymn_data, key, default) ==
    IF key \in DOMAIN hymn_data THEN hymn_data[key] ELSE default

(* hymn_data.get('status') == 'complete' and hymn_data.get('sanskrit') *)
Accepted(hymn_data) ==
    /\ "status" \in DOMAIN hymn_data
    /\ hymn_data["status"] = "complete"
    /\ "sanskrit" \in DOMAIN hymn_data
    /\ hymn_data["sanskrit"] # <<>>

(* the keys read with hymn_data[...]: a missing one raises KeyError *)
RequiredKeys == {"book", "hymn", "reference", "sanskrit", "romanized"}

(* the RigVedaHymn of lines 129-137 *)
MakeHymn(hymn_data) ==
    [book |-> hymn_data["book"],
     hymn |-> hymn_data["hymn"],
     reference |-> hymn_data["reference"],
     sanskrit |-> hymn_data["sanskrit"],
     romanized |-> hymn_data["romanized"],
     verses |-> get(hymn_data, "verses", 0),
     url |-> get(hymn_data, "url", "")]

(* the loop appends each hymn as soon as it is built *)
RECURSIVE LoadLoop(_, _, _)
LoadLoop(corpus_data, i, hs) ==
    IF i > Len(corpus_data) THEN [hymns |-> hs, val |-> TRUE]
    ELSE IF Accepted(corpus_data[i])
         THEN IF RequiredKeys \subseteq DOMAIN corpus_data[i]
              THEN LoadLoop(corpus_data, i + 1, Append(hs, MakeHymn(corpus_data[i])))
              ELSE [hymns |-> hs, val |-> FALSE]
         ELSE LoadLoop(corpus_data, i + 1, hs)

(* The hymn list and the value returned.  A file that cannot be opened or  *)
(* parsed raises before the loop; every exception is caught at line 143    *)
(* and turned into False.                                                  *)
load_corpus(file, hs) ==
    IF file.readable THEN LoadLoop(file.corpus_data, 1, hs)
    ELSE [hymns |-> hs, val |-> FALSE]

---------------------------------------------------------------------------
(* VedicLLMAnalyzer.analyze_with_llm (llm_sanskrit_integration.py).  A     *)
(* Python value is a record [type, value]; the value of a dict is a        *)
(* function of its keys.  Confidence is in tenths.  The content of a reply *)
(* is a JSON document (given by the value it decodes to), a text that is   *)
(* not JSON, or None.                                                      *)

EmptyDict == [type |-> "dict", value |-> <<>>]
EmptyList == [type |-> "list", value |-> <<>>]
Str(s) == [type |-> "str", value |-> s]
Float(tenths) == [type |-> "float", value |-> tenths]

(* json.loads(content): the decoded value, or the exception raised *)
json_loads(content) ==
    IF content.kind = "json" THEN [raised |-> "", value |-> content.value]
    ELSE IF content.kind = "text" THEN [raised |-> "JSONDecodeError"]
    ELSE [raised |-> "TypeError"]

(* lines 150-157: the response built from a text that is not JSON *)
TextAnalysis(content) ==
    [type |-> "dict",
     value |-> [morphology |-> EmptyDict,
                karaka_relations |-> EmptyList,
                semantic_field |-> Str("unknown"),
                triples |-> EmptyList,
                interpretation |-> Str(content.text),
                confidence |-> Float(7)]]

(* lines 163-170: the response built in the outer handler *)
FailedAnalysis ==
    [type |-> "dict",
     value |-> [morphology |-> EmptyDict,
                karaka_relations |-> EmptyList,
                semantic_field |-> Str("error"),
                triples |-> EmptyList,
                interpretation |-> Str("Analysis failed"),
                confidence |-> Float(0)]]

(* The inner handler catches json.JSONDecodeError only; the outer one      *)
(* catches every Exception: a failed request, and the TypeError of         *)
(* json.loads(None).                                                       *)
analyze_with_llm(response) ==
    IF response.transport = "failed" THEN FailedAnalysis
    ELSE LET decoded == json_loads(response.content)
         IN  IF decoded.raised = "" THEN decoded.value
             ELSE IF decoded.raised = "JSONDecodeError"
                  THEN TextAnalysis(response.content)
                  ELSE FailedAnalysis

---------------------------------------------------------------------------
(* VedicWebInterface (vedic_web_interface.py).  A str built by an f-string *)
(* is its fixed text and the values formatted into it; a list is its rows. *)

Text(template, args) == [type |-> "str", value |-> template, args |-> args]
List(rows) == [type |-> "list", value |-> rows]

(* the verses of self.sample_corpus; the translations are not modelled *)
sample_corpus ==
    << [sanskrit |-> <<2309, 2327, 2381, 2344, 2367, 2350, 2368, 2355, 2375, 32, 2346, 2369, 2352, 2379, 2361, 2367, 2340, 2306, 32, 2351, 2332, 2381, 2334, 2360, 2381, 2351, 32, 2342, 2375, 2357, 2350, 2371, 2340, 2381, 2357, 2367, 2332, 2350, 2381>>,
        reference |-> "RV 1.1.1a"],
       [sanskrit |-> <<2361, 2379, 2340, 2366, 2352, 2306, 32, 2352, 2340, 2381, 2344, 2343, 2366, 2340, 2350, 2350, 2381>>,
        reference |-> "RV 1.1.1b"],
       [sanskrit |-> <<2309, 2327, 2381, 2344, 2367, 2307, 32, 2346, 2370, 2352, 2381, 2357, 2375, 2349, 2367, 2352, 2381, 2315, 2359, 2367, 2349, 2367, 2352, 2368, 2337, 2381, 2351, 2379, 32, 2344, 2370, 2340, 2344, 2376, 2352, 2369, 2340>>,
        reference |-> "RV 1.1.2a"],
       [sanskrit |-> <<2360, 32, 2342, 2375, 2357, 2366, 2305, 32, 2319, 2361, 32, 2357, 2325, 2381, 2359, 2340, 2367>>,
        reference |-> "RV 1.1.2b"],
       [sanskrit |-> <<2311, 2344, 2381, 2342, 2381, 2352, 2306, 32, 2350, 2367, 2340, 2381, 2352, 2306, 32, 2357, 2352, 2369, 2339, 2350, 2327, 2381, 2344, 2367, 2350, 2366, 2361, 2369, 2307>>,
        reference |-> "RV 1.164.46a"] >>

(* _initialize_corpus: the analyses of the sample verses, and the triples  *)
(* their analysis appended to self.analyzer.triples                        *)
corpus_analyses ==
    [k \in 1..Len(sample_corpus) |->
        analyze_rigveda_verse(sample_corpus[k].sanskrit, sample_corpus[k].reference)]

RECURSIVE TriplesOf(_)
TriplesOf(as) ==
    IF as = <<>> THEN <<>> ELSE Head(as).triples \o TriplesOf(Tail(as))

(* self.analyzer.karaka_relations.get(triple.karaka, triple.karaka) *)
KarakaMeaning(karaka) ==
    IF \E i \in 1..Len(karaka_relations) : karaka_relations[i].key = karaka
    THEN karaka_relations[CHOOSE i \in 1..Len(karaka_relations) :
                             karaka_relations[i].key = karaka].meaning
    ELSE karaka

(* lines 102-112: one row per triple *)
TriplesData(analysis) ==
    [k \in 1..Len(analysis.triples) |->
        LET triple == analysis.triples[k]
        IN  <<triple.verb_root, triple.karaka, KarakaMeaning(triple.karaka), triple.word,
              IF triple.meaning # "" THEN triple.meaning ELSE "Unknown",
              triple.confidence>>]

(* self.analyzer.visualize_analysis(analysis) *)
visualize_analysis(analysis) ==
    Text("VEDIC ANALYSIS",
         <<analysis.reference, analysis.sanskrit, analysis.semantic_field,
           analysis.confidence, TriplesData(analysis)>>)

(* lines 115-122 *)
Summary(analysis) ==
    Text("Analysis Summary",
         <<analysis.semantic_field, Len(analysis.triples), analysis.entities_found,
           analysis.confidence>>)

(* lines 143-158: one row per result, of results[:10] *)
ResultsData(results) ==
    [k \in 1..Len(Take(results, TopN)) |->
        <<results[k].relationship.verse, results[k].relationship.entity,
          results[k].relationship.relation, results[k].relationship.verb,
          results[k].score>>]

(* list(entities.keys()): the entities in the order build_knowledge_graph  *)
(* first met them, which is the order of their first relationship record   *)
RECURSIVE EntityKeys(_, _)
EntityKeys(relationships, seen) ==
    IF relationships = <<>> THEN seen
    ELSE IF \E k \in 1..Len(seen) : seen[k] = Head(relationships).entity
         THEN EntityKeys(Tail(relationships), seen)
         ELSE EntityKeys(Tail(relationships), Append(seen, Head(relationships).entity))

(* lines 165-200; set(entity_info['relations']) is the set of the list *)
explore_entity(entity_name, g) ==
    IF strip(entity_name) = <<>>
    THEN Text("Please enter an entity name", <<>>)
    ELSE LET name == strip(entity_name)
             similar == SelectSeq(EntityKeys(g.relationships, <<>>),
                            LAMBDA key : \/ IsSubstring(lower(name), lower(key))
                                         \/ IsSubstring(lower(key), lower(name)))
         IN  IF name \in DOMAIN g.entities
             THEN LET entity_info == g.entities[name]
                  IN  Text("Entity: ",
                           <<name, entity_info.domain, entity_info.verses,
                             {entity_info.relations[k] : k \in 1..Len(entity_info.relations)},
                             IF InVocabulary(name)
                             THEN <<VocabularyEntry(name).meaning, VocabularyEntry(name).domain>>
                             ELSE <<>> >>)
             ELSE IF similar # <<>>
             THEN Text("not found exactly. Similar entities:", <<name, Take(similar, 5)>>)
             ELSE Text("not found in corpus", <<name>>)

---------------------------------------------------------------------------
(* Inputs.                                                                 *)

(* the calls made plus the words analysed, over the life of an analyzer *)
MaxWork == 6
(* the most words after the verb in a long verse of the query corpus *)
MaxBody == 11
MaxQueryWords == 2
MaxWordLen == 3

(* yajna: a vocabulary key that holds the root yaj *)
Yajna == <<2351, 2332, 2381, 2334>>
(* sat: a vocabulary key with an ablative ending *)
Sat == <<2360, 2340, 2381>>
(* satya: no vocabulary key, no ending; sat is a substring of it *)
Satya == <<2360, 2340, 2381, 2351>>
(* kavaye: ends in both a dative and a locative suffix *)
Kavaye == <<2325, 2357, 2351, 2375>>
(* Om: Latin script, mixed case *)
Om == <<79, 109>>
(* am, ena, aya, deva: an accusative, an instrumental, a dative and a      *)
(* nominative ending                                                       *)
Am == <<2309, 2350, 2381>>
Ena == <<2319, 2344>>
Aya == <<2310, 2351>>
Deva == <<2342, 2375, 2357, 2366>>

Tokens == {Yajna, Sat, Kavaye}

CorpusWords == {Yajna, Sat, Kavaye, Om, Am, Ena, Aya, Deva}

References == {"RV 1.1.1a", "RV 1.1.1b"}

(* ya, ka and Om *)
QueryWords == { <<2351>>, <<2325>>, Om }

(* ya, e (vowel sign), e (vowel), i (vowel), na (retroflex), aa (vowel    *)
(* sign), ta, virama, ja                                                   *)
Letters == {2351, 2375, 2319, 2311, 2339, 2366, 2340, VIRAMA, 2332}

SeqsUpTo(S, n) == UNION {[1..k -> S] : k \in 0..n}

(* ' '.join(ws) *)
RECURSIVE Join(_)
Join(ws) ==
    IF ws = <<>> THEN <<>>
    ELSE IF Len(ws) = 1 THEN ws[1]
    ELSE ws[1] \o <<SPACE>> \o Join(Tail(ws))

(* the sentences of at most n words, for every n the work bound allows *)
Sentences == [n \in 0..MaxWork |-> {Join(ws) : ws \in SeqsUpTo(Tokens, n)}]

Repeat(w, n) == [k \in 1..n |-> w]

(* verses of the query corpus: up to two words, and yajna, kavaye or       *)
(* nothing, then a run of sat or satya and a run of the other              *)
CorpusSentences ==
    {Join(ws) : ws \in SeqsUpTo(CorpusWords, 2)}
    \cup {Join(<<Yajna>> \o lead \o Repeat(ab[1], r[1]) \o Repeat(ab[2], r[2])) :
            lead \in {<<>>, <<Kavaye>>},
            ab \in {<<Sat, Satya>>, <<Satya, Sat>>},
            r \in {x \in (0..MaxBody) \X (0..MaxBody) : x[1] + x[2] <= MaxBody}}

Queries == {Join(ws) : ws \in SeqsUpTo(QueryWords, MaxQueryWords)} \cup {<<SPACE, SPACE>>}

Words == SeqsUpTo(Letters, MaxWordLen)

(* the longest text given to the tokenizer *)
MaxTextLen == 4

(* ya, the two dandas, a space, a newline, 'a' and '-' *)
TextChars == {2351, DANDA, DOUBLE_DANDA, SPACE, 10, 97, 45}

Texts == SeqsUpTo(TextChars, MaxTextLen)

(* the most records in a corpus file *)
MaxRecords == 3

(* a record with all the fields of the corpus format *)
HymnRecord(book, status, sanskrit) ==
    [book |-> book, hymn |-> 1, reference |-> "RV", sanskrit |-> sanskrit,
     romanized |-> "yajna", verses |-> 3, url |-> "", status |-> status]

(* the dict d without a key *)
Without(d, key) == [k \in (DOMAIN d) \ {key} |-> d[k]]

(* two complete records, a pending one, one with an empty text, a complete *)
(* one without 'book', one without 'romanized', and a pending one without  *)
(* 'book'                                                                  *)
Records ==
    {HymnRecord(1, "complete", Yajna),
     HymnRecord(2, "complete", Sat),
     HymnRecord(3, "pending", Yajna),
     HymnRecord(4, "complete", <<>>),
     Without(HymnRecord(5, "complete", Yajna), "book"),
     Without(HymnRecord(6, "complete", Yajna), "romanized"),
     Without(HymnRecord(7, "pending", Yajna), "book")}

(* the most triples added to the analyzer by the analyses of user input *)
MaxAdded == 2

(* Texts typed in the analysis box: nothing, whitespace, a danda, and      *)
(* sentences of one or two words, bare or surrounded by whitespace.        *)
WebInputs ==
    { <<>>, <<SPACE>>, <<SPACE, 10>>, <<9, SPACE>>, <<DANDA>> }
    \cup {Join(ws) : ws \in SeqsUpTo(Tokens, 2) \ {<<>>}}
    \cup {<<SPACE>> \o Join(ws) \o <<10>> : ws \in SeqsUpTo(Tokens, 2) \ {<<>>}}

(* Names typed in the entity box: nothing, whitespace, 'ya' and 'deva'     *)
(* (parts of names of the corpus), 'yajna', 'Om', and 'sat' surrounded by  *)
(* whitespace                                                              *)
ExploreInputs ==
    { <<>>, <<SPACE, 10>>, <<2351>>, Deva, Yajna, Om, <<SPACE>> \o Sat \o <<SPACE>> }

(* Queries typed in the search box: nothing, whitespace, 'Om', 'ya', and   *)
(* 'agni' and 'dha' in Devanagari, bare or surrounded by whitespace.       *)
WebQueries ==
    { <<>>, <<SPACE, SPACE>>, <<10>>, Om, <<2351>>, <<2309, 2327, 2381, 2344, 2367>>,
      <<SPACE, 2343, 2366, SPACE>> }

(* the six keys the prompt asks for *)
SixFields ==
    {"morphology", "karaka_relations", "semantic_field", "triples", "interpretation",
     "confidence"}

(* a JSON object with the given keys *)
JsonObject(keys, semantic_field, confidence) ==
    [type |-> "dict",
     value |-> [key \in keys |->
                  CASE key = "morphology" -> EmptyDict
                    [] key = "karaka_relations" -> EmptyList
                    [] key = "semantic_field" -> Str(semantic_field)
                    [] key = "triples" -> EmptyList
                    [] key = "interpretation" -> Str("A hymn to Agni")
                    [] key = "confidence" -> Float(confidence)]]

(* JSON objects with any of the six keys, a JSON array and a JSON string *)
JsonValues ==
    {JsonObject(keys, semantic_field, confidence) :
        keys \in SUBSET SixFields, semantic_field \in {"ritual", "deities"},
        confidence \in {0, 9}}
    \cup {EmptyList, Str("Agni")}

Contents ==
    {[kind |-> "json", value |-> value] : value \in JsonValues}
    \cup {[kind |-> "text", text |-> text] : text \in {"The verse praises Agni", ""}}
    \cup {[kind |-> "none"]}

Responses ==
    {[transport |-> "ok", content |-> content] : content \in Contents}
    \cup {[transport |-> "failed"]}

(* the most words in a sentence given to extract_semantic_triples alone *)
MaxSentence == 3

(* yaji: begins with yaj without its virama and holds the root ji         *)
Yaji == <<2351, 2332, 2367>>
(* idya: holds the roots i and id, and the praise pattern id              *)
Idya == <<2311, 2337, 2381, 2351>>
(* stuti: holds the root and praise pattern stu                           *)
Stuti == <<2360, 2381, 2340, 2369, 2340, 2367>>
(* gai: the root and praise pattern gai                                   *)
Gai == <<2327, 2376>>

ExtractWords == {Sat, Kavaye, Yajna, Yaji, Idya, Stuti, Gai}

(* sentences of these words, and a sentence of separators only *)
ExtractSentences ==
    {Join(ws) : ws \in SeqsUpTo(ExtractWords, MaxSentence)} \cup {<<SPACE, DANDA>>}

(* the most verses analysed before a graph of several domains is built *)
MaxVerses == 3

(* soma and rita: vocabulary keys of the domains 'soma' and 'philosophy'  *)
(* that match no verb root                                                *)
Soma == <<2360, 2379, 2350>>
Rita == <<2352, 2367, 2340>>

(* verses whose triples are of two words of one domain, of a word of      *)
(* another domain, of a word outside the vocabulary, or none              *)
GraphSentences ==
    { Join(<<Soma, Sat, Rita>>), Join(<<Kavaye, Soma>>), Join(<<Yajna, Sat, Kavaye>>),
      Join(<<Yajna, Kavaye>>), Kavaye }

CorpusFiles ==
    {[readable |-> TRUE, corpus_data |-> data] : data \in SeqsUpTo(Records, MaxRecords)}
    \cup {[readable |-> FALSE, corpus_data |-> <<>>]}

---------------------------------------------------------------------------
(* The analyzer and its caller.  triples is self.triples; analyses and     *)
(* graph are the caller's list of analyses and its knowledge graph (lines  *)
(* 438-452); ret is the last call and what it returned.  tables is the     *)
(* three attributes self.vedic_vocabulary, self.verb_roots and             *)
(* self.case_endings, set once by __init__; no method assigns to them or   *)
(* calls a mutating method on them, so the operators above read the        *)
(* literals they are set from.  hymns is the hymn list of a                *)
(* RigVedaCorpusProcessor.                                                 *)

(* lines 89, 92 and 125: the attributes as __init__ leaves them *)
InitialTables ==
    [vedic_vocabulary |-> vedic_vocabulary,
     verb_roots |-> verb_roots,
     case_endings |-> case_endings]

Init ==
    /\ triples = <<>>
    /\ analyses = <<>>
    /\ graph = EmptyGraph
    /\ ret = [op |-> "__init__"]
    /\ tables = InitialTables
    /\ hymns = <<>>

RECURSIVE Work(_)
Work(as) ==
    IF as = <<>> THEN 0 ELSE 1 + Len(findall(Head(as).sanskrit)) + Work(Tail(as))

(* self.triples assigned the list of the call instead of appended to *)
AnalyzeVerse_Reset(sanskrit, reference) ==
    \E analysis \in {analyze_rigveda_verse(sanskrit, reference)} :
        /\ triples' = analysis.triples
        /\ analyses' = Append(analyses, analysis)
        /\ ret' = [op |-> "analyze_rigveda_verse", val |-> analysis]
        /\ UNCHANGED <<graph, tables, hymns>>

(* a call that leaves out the words self.triples already holds *)
AnalyzeVerse_SkipKnown(sanskrit, reference) ==
    \E fresh \in {analyze_rigveda_verse(sanskrit, reference)} :
        \E analysis \in {[fresh EXCEPT !.triples =
                            SelectSeq(@, LAMBDA t :
                                \A k \in 1..Len(triples) : triples[k].word # t.word)]} :
            /\ triples' = triples \o analysis.triples
            /\ analyses' = Append(analyses, analysis)
            /\ ret' = [op |-> "analyze_rigveda_verse", val |-> analysis]
            /\ UNCHANGED <<graph, tables, hymns>>

(* analysis = analyzer.analyze_rigveda_verse(...); analyses.append(analysis) *)
AnalyzeVerse(sanskrit, reference) ==
    \E analysis \in {analyze_rigveda_verse(sanskrit, reference)} :
        /\ triples' = triples \o analysis.triples
        /\ analyses' = Append(analyses, analysis)
        /\ ret' = [op |-> "analyze_rigveda_verse", val |-> analysis]
        /\ UNCHANGED <<graph, tables, hymns>>

(* knowledge_graph = analyzer.build_knowledge_graph(analyses) *)
BuildGraph ==
    /\ graph' = build_knowledge_graph(analyses)
    /\ ret' = [op |-> "build_knowledge_graph", val |-> graph']
    /\ UNCHANGED <<triples, analyses, tables, hymns>>

(* the relationship list of the graph sorted in place by the score of the  *)
(* query (list.sort instead of sorted)                                     *)
Query_SortInPlace(query) ==
    LET words == split(lower(query))
        all == [k \in 1..Len(graph.relationships) |->
                  [relationship |-> graph.relationships[k],
                   score |-> Score(words, graph.relationships[k])]]
        inplace == sorted(all)
    IN  /\ ret' = [op |-> "query_knowledge_graph", query |-> query,
                   val |-> query_knowledge_graph(query, graph)]
        /\ graph' = [graph EXCEPT
                       !.relationships = [k \in 1..Len(inplace) |-> inplace[k].relationship]]
        /\ UNCHANGED <<triples, analyses, tables, hymns>>

(* results = analyzer.query_knowledge_graph(query, knowledge_graph) *)
Query(query) ==
    /\ ret' = [op |-> "query_knowledge_graph", query |-> query,
               val |-> query_knowledge_graph(query, graph)]
    /\ UNCHANGED <<triples, analyses, graph, tables, hymns>>

(* a query with the exact string of an entity of the graph *)
QueryEntity ==
    \E entity \in DOMAIN graph.entities : Query(entity)

Analyze ==
    /\ Work(analyses) < MaxWork
    /\ \E sanskrit \in Sentences[MaxWork - Work(analyses) - 1], reference \in References :
          AnalyzeVerse(sanskrit, reference)

Next ==
    \/ Analyze
    \/ BuildGraph
    \/ QueryEntity

Spec == Init /\ [][Next]_vars

(* The pipeline of __main__ on a corpus of one verse: analysed, built into *)
(* a graph, then queried.  A query changes nothing but what it returns, so *)
(* one query is made on the graph just built.                              *)
AnalyzeCorpus ==
    /\ analyses = <<>>
    /\ ret.op = "__init__"
    /\ \E sanskrit \in CorpusSentences : AnalyzeVerse(sanskrit, "RV 1.1.1a")

Built == ret.op = "build_knowledge_graph"

QueryText ==
    /\ Built
    /\ \E query \in Queries : Query(query)

QueryCorpusEntity ==
    /\ Built
    /\ QueryEntity

NextQuery ==
    \/ AnalyzeCorpus
    \/ BuildGraph
    \/ QueryText
    \/ QueryCorpusEntity

SpecQuery == Init /\ [][NextQuery]_vars

(* analyze_morphology called on a word. *)
Morphology ==
    /\ ret.op = "__init__"
    /\ \E word \in Words :
          ret' = [op |-> "analyze_morphology", val |-> analyze_morphology(word)]
    /\ UNCHANGED <<triples, analyses, graph, tables, hymns>>

NextMorphology == Morphology

SpecMorphology == Init /\ [][NextMorphology]_vars

(* The two tokenizers called on a text: tokenize_sanskrit, and the         *)
(* re.findall of lines 202 and 276 of the analyzer.                        *)
TokenizeSanskrit ==
    /\ ret.op = "__init__"
    /\ \E text \in Texts :
          ret' = [op |-> "tokenize_sanskrit", text |-> text, val |-> tokenize_sanskrit(text)]
    /\ UNCHANGED <<triples, analyses, graph, tables, hymns>>

FindAll ==
    /\ ret.op = "__init__"
    /\ \E text \in Texts :
          ret' = [op |-> "findall", text |-> text, val |-> findall(text)]
    /\ UNCHANGED <<triples, analyses, graph, tables, hymns>>

NextTokenize ==
    \/ TokenizeSanskrit
    \/ FindAll

SpecTokenize == Init /\ [][NextTokenize]_vars

(* processor.load_corpus() on a new RigVedaCorpusProcessor *)
LoadCorpus ==
    /\ ret.op = "__init__"
    /\ \E file \in CorpusFiles :
          \E outcome \in {load_corpus(file, hymns)} :
              /\ hymns' = outcome.hymns
              /\ ret' = [op |-> "load_corpus", file |-> file, val |-> outcome.val]
    /\ UNCHANGED <<triples, analyses, graph, tables>>

NextLoad == LoadCorpus

SpecLoad == Init /\ [][NextLoad]_vars

(* await analyzer.analyze_with_llm(text), for each reply the API can give *)
AnalyzeWithLLM ==
    /\ ret.op = "__init__"
    /\ \E response \in Responses :
          ret' = [op |-> "analyze_with_llm", response |-> response,
                  val |-> analyze_with_llm(response)]
    /\ UNCHANGED <<triples, analyses, graph, tables, hymns>>

NextLLM == AnalyzeWithLLM

SpecLLM == Init /\ [][NextLLM]_vars

(* The web interface: self.analyzer.triples is triples, self.corpus_analyses *)
(* is analyses and self.knowledge_graph is graph.  __init__ analyses the   *)
(* sample corpus and builds the graph.  raises says that an exception, not *)
(* caused by the text itself (a print to a stream that cannot encode it, a *)
(* MemoryError), is raised inside the try block, after some of the triples *)
(* of the verse were appended.                                             *)
InitWeb ==
    /\ triples = TriplesOf(corpus_analyses)
    /\ analyses = corpus_analyses
    /\ graph = build_knowledge_graph(corpus_analyses)
    /\ ret = [op |-> "__init__"]
    /\ tables = InitialTables
    /\ hymns = <<>>

(* analyze_sanskrit_text adding the analysis of the user's text to the     *)
(* corpus and building the graph again                                     *)
AnalyzeText_Rebuild(sanskrit_input, raises) ==
    IF strip(sanskrit_input) = <<>>
    THEN /\ ret' = [op |-> "analyze_sanskrit_text", input |-> sanskrit_input,
                    outcome |-> "returned", raised |-> FALSE,
                    val |-> [detailed_output |->
                                Text("Please enter Sanskrit text to analyze", <<>>),
                             summary |-> Text("", <<>>),
                             triples_data |-> Text("", <<>>)]]
         /\ UNCHANGED <<triples, analyses, graph, tables, hymns>>
    ELSE \E analysis \in {analyze_rigveda_verse(strip(sanskrit_input), "User Input")} :
           IF raises
           THEN /\ \E n \in 0..Len(analysis.triples) :
                      triples' = triples \o SubSeq(analysis.triples, 1, n)
                /\ ret' = [op |-> "analyze_sanskrit_text", input |-> sanskrit_input,
                           outcome |-> "returned", raised |-> TRUE,
                           val |-> [detailed_output |->
                                       Text("Analysis error: ", <<"Exception">>),
                                    summary |-> Text("", <<>>),
                                    triples_data |-> List(<<>>)]]
                /\ UNCHANGED <<analyses, graph, tables, hymns>>
           ELSE /\ triples' = triples \o analysis.triples
                /\ analyses' = Append(analyses, analysis)
                /\ graph' = build_knowledge_graph(analyses')
                /\ ret' = [op |-> "analyze_sanskrit_text", input |-> sanskrit_input,
                           outcome |-> "returned", raised |-> FALSE,
                           val |-> [detailed_output |-> visualize_analysis(analysis),
                                    summary |-> Summary(analysis),
                                    triples_data |-> List(TriplesData(analysis))]]
                /\ UNCHANGED <<tables, hymns>>

(* analyze_sanskrit_text without its first test: the analyzer runs on      *)
(* every input                                                             *)
AnalyzeText_NoGuard(sanskrit_input, raises) ==
    /\ \E analysis \in {analyze_rigveda_verse(strip(sanskrit_input), "User Input")} :
          IF raises
          THEN /\ \E n \in 0..Len(analysis.triples) :
                     triples' = triples \o SubSeq(analysis.triples, 1, n)
               /\ ret' = [op |-> "analyze_sanskrit_text", input |-> sanskrit_input,
                          outcome |-> "returned", raised |-> TRUE,
                          val |-> [detailed_output |-> Text("Analysis error: ", <<"Exception">>),
                                   summary |-> Text("", <<>>),
                                   triples_data |-> List(<<>>)]]
          ELSE /\ triples' = triples \o analysis.triples
               /\ ret' = [op |-> "analyze_sanskrit_text", input |-> sanskrit_input,
                          outcome |-> "returned", raised |-> FALSE,
                          val |-> [detailed_output |-> visualize_analysis(analysis),
                                   summary |-> Summary(analysis),
                                   triples_data |-> List(TriplesData(analysis))]]
    /\ UNCHANGED <<analyses, graph, tables, hymns>>

(* lines 85-127 *)
AnalyzeText(sanskrit_input, raises) ==
    /\ IF strip(sanskrit_input) = <<>>
       THEN /\ ret' = [op |-> "analyze_sanskrit_text", input |-> sanskrit_input,
                       outcome |-> "returned", raised |-> FALSE,
                       val |-> [detailed_output |->
                                   Text("Please enter Sanskrit text to analyze", <<>>),
                                summary |-> Text("", <<>>),
                                triples_data |-> Text("", <<>>)]]
            /\ UNCHANGED triples
       ELSE \E analysis \in {analyze_rigveda_verse(strip(sanskrit_input), "User Input")} :
              IF raises
              THEN /\ \E n \in 0..Len(analysis.triples) :
                         triples' = triples \o SubSeq(analysis.triples, 1, n)
                   /\ ret' = [op |-> "analyze_sanskrit_text", input |-> sanskrit_input,
                              outcome |-> "returned", raised |-> TRUE,
                              val |-> [detailed_output |->
                                          Text("Analysis error: ", <<"Exception">>),
                                       summary |-> Text("", <<>>),
                                       triples_data |-> List(<<>>)]]
              ELSE /\ triples' = triples \o analysis.triples
                   /\ ret' = [op |-> "analyze_sanskrit_text", input |-> sanskrit_input,
                              outcome |-> "returned", raised |-> FALSE,
                              val |-> [detailed_output |-> visualize_analysis(analysis),
                                       summary |-> Summary(analysis),
                                       triples_data |-> List(TriplesData(analysis))]]
    /\ UNCHANGED <<analyses, graph, tables, hymns>>

(* lines 129-163 *)
SearchCorpus(query, raises) ==
    /\ IF strip(query) = <<>>
       THEN ret' = [op |-> "search_vedic_corpus", input |-> query,
                    outcome |-> "returned", raised |-> FALSE,
                    val |-> [output |-> Text("Please enter a search query", <<>>),
                             results_data |-> List(<<>>)]]
       ELSE IF raises
       THEN ret' = [op |-> "search_vedic_corpus", input |-> query,
                    outcome |-> "returned", raised |-> TRUE,
                    val |-> [output |-> Text("Search error: ", <<"Exception">>),
                             results_data |-> List(<<>>)]]
       ELSE \E results \in {query_knowledge_graph(strip(query), graph)} :
              IF results = <<>>
              THEN ret' = [op |-> "search_vedic_corpus", input |-> query,
                           outcome |-> "returned", raised |-> FALSE,
                           val |-> [output |-> Text("No results found for ", <<query>>),
                                    results_data |-> List(<<>>)]]
              ELSE ret' = [op |-> "search_vedic_corpus", input |-> query,
                           outcome |-> "returned", raised |-> FALSE,
                           val |-> [output |-> Text("Search Results for ",
                                                    <<query, Len(results), ResultsData(results)>>),
                                    results_data |-> List(ResultsData(results))]]
    /\ UNCHANGED <<triples, analyses, graph, tables, hymns>>

AnalyzeSanskritText ==
    /\ Len(triples) < Len(TriplesOf(corpus_analyses)) + MaxAdded
    /\ \E sanskrit_input \in WebInputs, raises \in BOOLEAN :
          AnalyzeText(sanskrit_input, raises)

(* A search changes nothing but what it returns, so no search is made     *)
(* right after another.                                                    *)
SearchVedicCorpus ==
    /\ ret.op # "search_vedic_corpus"
    /\ \E query \in WebQueries, raises \in BOOLEAN : SearchCorpus(query, raises)

(* explore_entity on a name of the box or on the exact name of an entity   *)
(* of the graph; it changes nothing but what it returns, so no two calls   *)
(* are made in a row                                                       *)
ExploreEntity ==
    /\ ret.op # "explore_entity"
    /\ \E entity_name \in ExploreInputs \cup DOMAIN graph.entities :
          ret' = [op |-> "explore_entity", input |-> entity_name,
                  outcome |-> "returned", raised |-> FALSE,
                  val |-> explore_entity(entity_name, graph)]
    /\ UNCHANGED <<triples, analyses, graph, tables, hymns>>

NextWeb ==
    \/ AnalyzeSanskritText
    \/ SearchVedicCorpus
    \/ ExploreEntity

SpecWeb == InitWeb /\ [][NextWeb]_vars

(* The loop of __main__ over verses of several domains, and the graph      *)
(* built from the analyses made so far.                                    *)
AnalyzeGraphVerse ==
    /\ Len(analyses) < MaxVerses
    /\ \E sanskrit \in GraphSentences, reference \in References :
          AnalyzeVerse(sanskrit, reference)

NextGraph ==
    \/ AnalyzeGraphVerse
    \/ BuildGraph

SpecGraph == Init /\ [][NextGraph]_vars

(* analyzer.extract_semantic_triples(sentence) on a new analyzer *)
ExtractSemanticTriples ==
    /\ ret.op = "__init__"
    /\ \E sentence \in ExtractSentences :
          \E val \in {extract_semantic_triples(sentence)} :
              /\ triples' = triples \o val
              /\ ret' = [op |-> "extract_semantic_triples", sentence |-> sentence,
                         val |-> val]
    /\ UNCHANGED <<analyses, graph, tables, hymns>>

NextExtract == ExtractSemanticTriples

SpecExtract == Init /\ [][NextExtract]_vars

---------------------------------------------------------------------------
(* Properties of extract_semantic_triples.                                 *)

Analysed == ret.op = "analyze_rigveda_verse"

(* the words of the sentence last analysed, and the anchor chosen for it *)
LastWords == findall(ret.val.sanskrit)
LastAnchor == FindMainVerb(LastWords).main_verb

WordsOf(ts) == [k \in 1..Len(ts) |-> ts[k].word]

(* s without its element at position p *)
RemoveAt(s, p) == [k \in 1..(Len(s) - 1) |-> IF k < p THEN s[k] ELSE s[k + 1]]

Occurrences(s, x) == Cardinality({k \in 1..Len(s) : s[k] = x})

(* C1 as stated: for a sentence of n >= 1 tokens the call returns one      *)
(* triple for each token position other than the anchor's, n - 1 in all,   *)
(* in token order.                                                         *)
C1_OnePerOtherPosition ==
    (Analysed /\ Len(LastWords) >= 1) =>
        LET p == CHOOSE k \in 1..Len(LastWords) :
                    /\ LastWords[k] = LastAnchor
                    /\ \A j \in 1..(k - 1) : LastWords[j] # LastAnchor
        IN  /\ Len(ret.val.triples) = Len(LastWords) - 1
            /\ WordsOf(ret.val.triples) = RemoveAt(LastWords, p)

(* C1 amended: the call returns one triple for each token whose string     *)
(* differs from the anchor's, in token order; every occurrence of the      *)
(* anchor string is left out, so there are n minus the number of           *)
(* occurrences of the anchor triples.                                      *)
C1_OnePerOtherWord ==
    (Analysed /\ Len(LastWords) >= 1) =>
        LET Other(w) == w # LastAnchor
        IN  /\ WordsOf(ret.val.triples) = SelectSeq(LastWords, Other)
            /\ Len(ret.val.triples) = Len(LastWords) - Occurrences(LastWords, LastAnchor)

(* a sentence in which the anchor occurs twice and another word follows *)
C1_Witness ==
    /\ Analysed
    /\ Len(LastWords) = 3
    /\ Occurrences(LastWords, LastAnchor) = 2
    /\ Len(ret.val.triples) = 1

(* C3: a call never returns, and never appends to self.triples, a triple   *)
(* whose word equals the anchor chosen for its sentence.                   *)
C3_AnchorNeverEmitted ==
    [][analyses' # analyses =>
          LET words == findall(ret'.val.sanskrit)
              anchor == FindMainVerb(words).main_verb
          IN  /\ \A k \in 1..Len(ret'.val.triples) : ret'.val.triples[k].word # anchor
              /\ Len(triples') = Len(triples) + Len(ret'.val.triples)
              /\ \A k \in (Len(triples) + 1)..Len(triples') : triples'[k].word # anchor
      ]_vars

(* a call that returned two triples for a sentence of three words *)
C3_Witness ==
    /\ Analysed
    /\ Len(LastWords) = 3
    /\ Occurrences(LastWords, LastAnchor) = 1
    /\ Len(ret.val.triples) = 2
    /\ Len(triples) >= 2

---------------------------------------------------------------------------
(* Properties of analyze_morphology.                                       *)

(* the positions, in dict order, of the case-ending lists one of whose     *)
(* endings is a suffix of the word                                         *)
MatchingLists(word) ==
    {i \in 1..Len(case_endings) :
        \E k \in 1..Len(case_endings[i].endings) : endswith(word, case_endings[i].endings[k])}

(* C2: when the ending of a token matches a suffix of two case-ending      *)
(* lists, the guessed case is that of the list that comes first in the     *)
(* enumeration order.                                                      *)
C2_FirstListWins ==
    ret.op = "analyze_morphology" =>
        LET lists == MatchingLists(ret.val.word)
        IN  Cardinality(lists) >= 2 =>
              ret.val.case = case_endings[CHOOSE i \in lists : \A j \in lists : i <= j].case

---------------------------------------------------------------------------
(* Properties of build_knowledge_graph.                                    *)

JustBuilt == ret.op = "build_knowledge_graph"

(* the (word, reference) of every triple of a list of analyses, in input   *)
(* order                                                                   *)
RECURSIVE Occurs(_)
Occurs(as) ==
    IF as = <<>> THEN <<>>
    ELSE [k \in 1..Len(Head(as).triples) |->
            [word |-> Head(as).triples[k].word, reference |-> Head(as).reference]]
         \o Occurs(Tail(as))

(* the references, in input order, of the triples whose word is entity *)
ReferencesOf(entity, as) ==
    LET IsEntity(o) == o.word = entity
        os == SelectSeq(Occurs(as), IsEntity)
    IN  [k \in 1..Len(os) |-> os[k].reference]

(* C5: the verse list of an entity holds the reference of every triple of  *)
(* that entity, one per occurrence, in input order, without deduplication. *)
C5_VersesAppended ==
    JustBuilt =>
        /\ DOMAIN graph.entities = {Occurs(analyses)[k].word : k \in 1..Len(Occurs(analyses))}
        /\ \A entity \in DOMAIN graph.entities :
              graph.entities[entity].verses = ReferencesOf(entity, analyses)

(* an entity of two analyses with different references, both listed in     *)
(* input order                                                             *)
C5_Witness ==
    /\ JustBuilt
    /\ Len(analyses) = 2
    /\ analyses[1].reference # analyses[2].reference
    /\ \E entity \in DOMAIN graph.entities :
          graph.entities[entity].verses = <<analyses[1].reference, analyses[2].reference>>

(* C6: each entity of a built graph has the domain the vocabulary records  *)
(* for it when it is a vocabulary key, and 'unknown' when it is not.       *)
C6_EntityDomain ==
    JustBuilt =>
        \A entity \in DOMAIN graph.entities :
            /\ \A i \in 1..Len(vedic_vocabulary) :
                  vedic_vocabulary[i].key = entity =>
                      graph.entities[entity].domain = vedic_vocabulary[i].domain
            /\ (\A i \in 1..Len(vedic_vocabulary) : vedic_vocabulary[i].key # entity) =>
                  graph.entities[entity].domain = "unknown"

(* a graph with an entity of the vocabulary and one outside it *)
C6_Witness ==
    /\ JustBuilt
    /\ \E entity \in DOMAIN graph.entities :
          /\ \E i \in 1..Len(vedic_vocabulary) : vedic_vocabulary[i].key = entity
          /\ graph.entities[entity].domain = "philosophy"
    /\ \E entity \in DOMAIN graph.entities :
          /\ \A i \in 1..Len(vedic_vocabulary) : vedic_vocabulary[i].key # entity
          /\ graph.entities[entity].domain = "unknown"

---------------------------------------------------------------------------
(* The karaka of a triple.                                                 *)

(* the fixed table from the guessed case to a key of karaka_relations *)
CaseKaraka(case) ==
    CASE case = "accusative" -> karaka_relations[2].key
      [] case = "instrumental" -> karaka_relations[3].key
      [] case = "dative" -> karaka_relations[4].key
      [] case = "ablative" -> karaka_relations[5].key
      [] case = "locative" -> karaka_relations[6].key
      [] case \in {"nominative", "unknown"} -> karaka_relations[1].key

(* C7: the karaka of every emitted triple is one of the seven keys of      *)
(* karaka_relations, the one the fixed table gives for the guessed case of *)
(* its word (karta for a nominative or unknown case).                      *)
C7_KarakaFromCase ==
    Analysed =>
        \A k \in 1..Len(ret.val.triples) :
            /\ \E i \in 1..Len(karaka_relations) :
                  ret.val.triples[k].karaka = karaka_relations[i].key
            /\ ret.val.triples[k].karaka =
                  CaseKaraka(analyze_morphology(ret.val.triples[k].word).case)

(* a triple of a word with a dative ending *)
C7_Witness ==
    /\ Analysed
    /\ \E k \in 1..Len(ret.val.triples) :
          /\ analyze_morphology(ret.val.triples[k].word).case = "dative"
          /\ ret.val.triples[k].karaka = karaka_relations[4].key

---------------------------------------------------------------------------
(* Properties of query_knowledge_graph.                                    *)

Queried == ret.op = "query_knowledge_graph"

(* the words of the query last made *)
LastQueryWords == split(lower(ret.query))

Hits(words, s) == Cardinality({i \in 1..Len(words) : IsSubstring(words[i], s)})

(* the score as C9 states it: 2 for every query word that is a substring   *)
(* of the lower-cased entity, 1.5 for every one in the verb, 1 for every   *)
(* one in the relation (in halves)                                         *)
StatedScore(words, relationship) ==
      EntityScore * Hits(words, lower(relationship.entity))
    + VerbScore * Hits(words, relationship.verb)
    + RelationScore * Hits(words, relationship.relation)

(* the stated score of every relationship of the graph for the query last *)
(* made, in the order of the relationship list                             *)
RECURSIVE StatedScores(_, _)
StatedScores(words, relationships) ==
    IF relationships = <<>> THEN <<>>
    ELSE <<StatedScore(words, Head(relationships))>>
         \o StatedScores(words, Tail(relationships))

LastScores == StatedScores(LastQueryWords, graph.relationships)

(* the positions of the relationships that score > 0 *)
PositiveIn(scores) == {i \in 1..Len(scores) : scores[i] > 0}

Positive == PositiveIn(LastScores)

(* the number of relationships that come before relationship i in a        *)
(* descending order of score that keeps the order of the graph on ties     *)
Rank(scores, i) ==
    Cardinality({j \in PositiveIn(scores) :
        scores[j] > scores[i] \/ (scores[j] = scores[i] /\ j < i)})

(* C8: the result is the relationships that score > 0, by descending       *)
(* score, those of equal score in the order of the relationship list, cut  *)
(* to the first 10.                                                        *)
C8_SortedStableTop10 ==
    Queried =>
        LET scores == LastScores
            positive == PositiveIn(scores)
            shown == IF Cardinality(positive) < TopN THEN Cardinality(positive) ELSE TopN
        IN  /\ Len(ret.val) = shown
            /\ \A k \in 1..shown :
                  ret.val[k].relationship =
                      graph.relationships[CHOOSE i \in positive : Rank(scores, i) = k - 1]
            /\ \A k \in 1..(Len(ret.val) - 1) : ret.val[k].score >= ret.val[k + 1].score

(* more than 10 relationships score > 0, the result holds two scores, and  *)
(* two different relationships of equal score follow each other            *)
C8_Witness ==
    /\ Queried
    /\ Cardinality(Positive) > TopN
    /\ Len(ret.val) = TopN
    /\ ret.val[1].score > ret.val[TopN].score
    /\ \E k \in 1..(TopN - 1) :
          /\ ret.val[k].score = ret.val[k + 1].score
          /\ ret.val[k].relationship # ret.val[k + 1].relationship

(* C9: the score of a returned relationship is the stated sum over the     *)
(* words of the lower-cased, whitespace-split query, and a relationship is *)
(* returned only if its sum is > 0.                                        *)
C9_ScoreIsWeightedSum ==
    Queried =>
        LET words == LastQueryWords
            positive == Positive
        IN  /\ \A k \in 1..Len(ret.val) :
                  /\ ret.val[k].score = StatedScore(words, ret.val[k].relationship)
                  /\ ret.val[k].score > 0
                  /\ \E i \in positive : graph.relationships[i] = ret.val[k].relationship
            /\ Cardinality(positive) <= TopN => Len(ret.val) = Cardinality(positive)

(* a query of two words, both in the entity, one in the verb and one in    *)
(* the relation of a returned relationship                                 *)
C9_Witness ==
    /\ Queried
    /\ Len(LastQueryWords) = 2
    /\ \E k \in 1..Len(ret.val) :
          ret.val[k].score = 2 * EntityScore + VerbScore + RelationScore

(* C10: a query that is empty or holds only whitespace returns an empty    *)
(* list, whatever the graph.                                               *)
C10_EmptyQueryNoResult ==
    (Queried /\ \A k \in 1..Len(ret.query) : ret.query[k] \in Whitespace) =>
        ret.val = <<>>

(* a whitespace-only query on a graph with relationships *)
C10_Witness ==
    /\ Queried
    /\ ret.query = <<SPACE, SPACE>>
    /\ ret.val = <<>>
    /\ Len(graph.relationships) >= 2

(* the query is the exact string of an entity of the graph *)
EntityQueried == Queried /\ ret.query \in DOMAIN graph.entities

(* a result for the queried entity with score >= 2.0 *)
EntityFound ==
    \E k \in 1..Len(ret.val) :
        /\ ret.val[k].relationship.entity = ret.query
        /\ ret.val[k].score >= EntityScore

(* C4 as stated: for a graph with any number of relationships, the query   *)
(* with the exact string of an entity returns a result for that entity     *)
(* with score >= 2.0.                                                      *)
C4_RoundTripAnyGraph == EntityQueried => EntityFound

(* C4 amended: it does so whenever at most 10 relationships of the graph   *)
(* score > 0 for the query; beyond that the cut to the first 10 can drop   *)
(* every relationship of the entity.                                       *)
C4_RoundTripWithinTop10 ==
    (EntityQueried /\ Cardinality(Positive) <= TopN) => EntityFound

(* the entity found in a graph of more than 10 relationships *)
C4_Witness ==
    /\ EntityQueried
    /\ Len(graph.relationships) > TopN
    /\ Cardinality(Positive) <= TopN
    /\ EntityFound

---------------------------------------------------------------------------
(* Scripts.                                                                *)

(* the letters A-Z, a-z *)
LatinLetters == (65..90) \cup (97..122)

AllIn(s, chars) == \A k \in 1..Len(s) : s[k] \in chars

(* every relationship of the graph has a Devanagari entity, verb and       *)
(* relation                                                                *)
DevanagariGraph ==
    \A i \in 1..Len(graph.relationships) :
        /\ AllIn(graph.relationships[i].entity, DevanagariBlock)
        /\ AllIn(graph.relationships[i].verb, DevanagariBlock)
        /\ AllIn(graph.relationships[i].relation, DevanagariBlock)

(* C11: a query whose words are all in Latin script returns no result      *)
(* against a graph whose relationships have Devanagari entity, verb and    *)
(* relation strings.                                                       *)
C11_LatinQueryNoMatch ==
    (/\ Queried
     /\ \A k \in 1..Len(split(ret.query)) : AllIn(split(ret.query)[k], LatinLetters)
     /\ DevanagariGraph) => ret.val = <<>>

(* the query 'Om' on a Devanagari graph of two relationships or more *)
C11_Witness ==
    /\ Queried
    /\ ret.query = Om
    /\ DevanagariGraph
    /\ Len(graph.relationships) >= 2
    /\ ret.val = <<>>

---------------------------------------------------------------------------
(* Confidence.                                                             *)

(* C12: the confidence analyze_morphology returns for every token is >= 0, *)
(* and so is the confidence of every emitted triple and of every           *)
(* relationship record built from it.                                      *)
C12_ConfidenceNonNegative ==
    /\ \A a \in 1..Len(analyses) :
          \A k \in 1..Len(findall(analyses[a].sanskrit)) :
              analyze_morphology(findall(analyses[a].sanskrit)[k]).confidence >= 0
    /\ \A k \in 1..Len(triples) : triples[k].confidence >= 0
    /\ \A a \in 1..Len(analyses) :
          \A k \in 1..Len(analyses[a].triples) : analyses[a].triples[k].confidence >= 0
    /\ \A i \in 1..Len(graph.relationships) : graph.relationships[i].confidence >= 0

(* a graph with a relationship of confidence 0 and one of confidence 0.8 *)
C12_Witness ==
    /\ JustBuilt
    /\ \E i \in 1..Len(graph.relationships) : graph.relationships[i].confidence = 0
    /\ \E i \in 1..Len(graph.relationships) :
          graph.relationships[i].confidence = 2 * CaseBonus
    /\ Len(triples) = Len(graph.relationships)

---------------------------------------------------------------------------
(* Properties of the tokenizers.                                           *)

Tokenized == ret.op \in {"tokenize_sanskrit", "findall"}

(* the positions of s where a maximal run of characters outside seps       *)
(* starts, and where the run that starts at i ends                         *)
RunStarts(s, seps) ==
    {i \in 1..Len(s) : s[i] \notin seps /\ (i = 1 \/ s[i - 1] \in seps)}

RunEnd(s, seps, i) ==
    CHOOSE j \in i..Len(s) :
        /\ \A m \in i..j : s[m] \notin seps
        /\ (j = Len(s) \/ s[j + 1] \in seps)

(* the maximal runs of characters of s outside seps, in order *)
MaximalRuns(s, seps) ==
    LET starts == RunStarts(s, seps)
        Start(k) == CHOOSE i \in starts : Cardinality({j \in starts : j < i}) = k - 1
    IN  [k \in 1..Cardinality(starts) |-> SubSeq(s, Start(k), RunEnd(s, seps, Start(k)))]

(* whitespace and the single and double danda *)
Separators == Whitespace \cup {DANDA, DOUBLE_DANDA}

(* every token is non-empty and holds no separator; a text of separators   *)
(* only gives no token                                                     *)
CleanTokens ==
    /\ \A k \in 1..Len(ret.val) : ret.val[k] # <<>> /\ AllIn(ret.val[k], Nat \ Separators)
    /\ AllIn(ret.text, Separators) => ret.val = <<>>

(* C13 as stated: the tokenizer returns, in order, exactly the maximal     *)
(* runs of characters that are neither whitespace nor a danda, whatever    *)
(* the text.                                                               *)
C13_MaximalRunsAnyText ==
    Tokenized => (ret.val = MaximalRuns(ret.text, Separators) /\ CleanTokens)

(* C13 amended: the re.findall of the analyzer does so on every text, and  *)
(* tokenize_sanskrit on every text that holds a character of the           *)
(* Devanagari or Vedic Extensions block; on any other text                 *)
(* tokenize_sanskrit returns the maximal runs of word characters.  In all  *)
(* cases the tokens are non-empty and hold no whitespace or danda, and a   *)
(* text of separators only gives no token.                                 *)
C13_MaximalRunsDevanagari ==
    Tokenized =>
        /\ (ret.op = "findall" \/ is_devanagari_text(ret.text)) =>
              ret.val = MaximalRuns(ret.text, Separators)
        /\ (ret.op = "tokenize_sanskrit" /\ ~is_devanagari_text(ret.text)) =>
              ret.val = MaximalRuns(ret.text, NotWord)
        /\ CleanTokens

(* tokenize_sanskrit on a Devanagari text cut in two tokens by a danda *)
C13_Witness ==
    /\ ret.op = "tokenize_sanskrit"
    /\ is_devanagari_text(ret.text)
    /\ \E k \in 1..Len(ret.text) : ret.text[k] = DANDA
    /\ Len(ret.val) = 2
    /\ Len(ret.val[1]) = 2

---------------------------------------------------------------------------
(* Properties of classify_semantic_field.                                  *)

(* the positions of the words that are vocabulary keys, and the domain of  *)
(* the word at such a position                                             *)
Recognised(words) ==
    {k \in 1..Len(words) : \E i \in 1..Len(vedic_vocabulary) : vedic_vocabulary[i].key = words[k]}

DomainAt(words, k) ==
    vedic_vocabulary[CHOOSE i \in 1..Len(vedic_vocabulary) :
                        vedic_vocabulary[i].key = words[k]].domain

(* the number of tokens counted for a domain, and the position of the      *)
(* first of them                                                           *)
CountOf(words, domain) ==
    Cardinality({k \in Recognised(words) : DomainAt(words, k) = domain})

FirstOf(words, domain) ==
    CHOOSE k \in Recognised(words) :
        /\ DomainAt(words, k) = domain
        /\ \A j \in Recognised(words) : DomainAt(words, j) = domain => k <= j

(* C14: the semantic field is the domain counted for the most tokens of    *)
(* the sentence that are vocabulary keys; on a tie it is the tied domain   *)
(* encountered first in the sentence; it is 'general' if no token is a     *)
(* vocabulary key.                                                         *)
C14_MajorityDomainFirstOnTie ==
    Analysed =>
        LET words == LastWords
            field == ret.val.semantic_field
        IN  IF Recognised(words) = {} THEN field = "general"
            ELSE /\ \E k \in Recognised(words) : DomainAt(words, k) = field
                 /\ \A j \in Recognised(words) :
                       LET other == DomainAt(words, j)
                       IN  /\ CountOf(words, other) <= CountOf(words, field)
                           /\ CountOf(words, other) = CountOf(words, field) =>
                                 FirstOf(words, field) <= FirstOf(words, other)

(* two domains counted twice each; the one encountered first, which comes  *)
(* second in the vocabulary, is returned                                   *)
C14_Witness ==
    /\ Analysed
    /\ Len(LastWords) = 4
    /\ CountOf(LastWords, "ritual") = 2
    /\ CountOf(LastWords, "philosophy") = 2
    /\ FirstOf(LastWords, "philosophy") < FirstOf(LastWords, "ritual")
    /\ ret.val.semantic_field = "philosophy"

---------------------------------------------------------------------------
(* Frame.                                                                  *)

(* C15: no operation of the analyzer changes the vocabulary, verb-root or  *)
(* case-ending table, and query_knowledge_graph leaves the queried graph   *)
(* unchanged.                                                              *)
C15_TablesAndGraphFrame ==
    [][/\ tables' = tables
       /\ tables'.vedic_vocabulary = vedic_vocabulary
       /\ tables'.verb_roots = verb_roots
       /\ tables'.case_endings = case_endings
       /\ ret'.op = "query_knowledge_graph" => graph' = graph
      ]_vars

(* a query that returned a result whose relationship is not the first of   *)
(* the graph, after verses were analysed                                   *)
C15_Witness ==
    /\ Queried
    /\ ret.val # <<>>
    /\ ret.val[1].relationship # graph.relationships[1]
    /\ triples # <<>>
    /\ tables = InitialTables

---------------------------------------------------------------------------
(* Properties of load_corpus.                                              *)

Loaded == ret.op = "load_corpus"

(* a record of the file passes the status/sanskrit filter and lacks a      *)
(* required field                                                          *)
SchemaViolation(file) ==
    /\ file.readable
    /\ \E i \in 1..Len(file.corpus_data) :
          LET record == file.corpus_data[i]
          IN  /\ "status" \in DOMAIN record /\ record["status"] = "complete"
              /\ "sanskrit" \in DOMAIN record /\ record["sanskrit"] # <<>>
              /\ \E key \in {"book", "hymn", "reference", "romanized"} : key \notin DOMAIN record

(* C16: if a record that passes the status/sanskrit filter lacks a         *)
(* required field, load_corpus fails as a whole and no hymn of the file is *)
(* left loaded in the processor.                                           *)
C16_NoPartialLoad ==
    (Loaded /\ SchemaViolation(ret.file)) => (ret.val = FALSE /\ hymns = <<>>)

---------------------------------------------------------------------------
(* Properties of analyze_with_llm.                                         *)

LLMAnalysed == ret.op = "analyze_with_llm"

(* the reply is the structured JSON the prompt asks for: an object with    *)
(* the six keys                                                            *)
ExpectedReply(response) ==
    /\ response.transport = "ok"
    /\ response.content.kind = "json"
    /\ response.content.value.type = "dict"
    /\ \A key \in {"morphology", "karaka_relations", "semantic_field", "triples",
                   "interpretation", "confidence"} :
          key \in DOMAIN response.content.value.value

(* a dict with empty morphology and triples, the given field and the given *)
(* confidence                                                              *)
Degraded(val, field, confidence) ==
    /\ val.value["morphology"] = [type |-> "dict", value |-> <<>>]
    /\ val.value["triples"] = [type |-> "list", value |-> <<>>]
    /\ val.value["semantic_field"] = [type |-> "str", value |-> field]
    /\ val.value["confidence"] = [type |-> "float", value |-> confidence]

(* C17: analyze_with_llm always returns a record with the six fields; on a *)
(* reply that is not the expected structured JSON it is the degraded       *)
(* record with semantic_field 'unknown' and confidence 0.7, on a transport *)
(* failure the one with 'error' and 0.0.                                   *)
C17_AlwaysSixFields ==
    LLMAnalysed =>
        /\ ret.val.type = "dict"
        /\ DOMAIN ret.val.value =
              {"morphology", "karaka_relations", "semantic_field", "triples",
               "interpretation", "confidence"}
        /\ (ret.response.transport = "ok" /\ ~ExpectedReply(ret.response)) =>
              Degraded(ret.val, "unknown", 7)
        /\ ret.response.transport = "failed" => Degraded(ret.val, "error", 0)

---------------------------------------------------------------------------
(* Properties of the web interface.                                        *)

(* an empty str or an empty list *)
IsEmpty(v) == IF v.type = "str" THEN v.value = "" ELSE v.value = <<>>

(* C18: analyze_sanskrit_text and search_vedic_corpus never raise; for an  *)
(* empty or whitespace-only input they return an explicit message with     *)
(* empty results without running the analyzer, and an exception raised     *)
(* during analysis or search is turned into an error-message result.       *)
C18_NeverRaises ==
    [][/\ ret'.op = "analyze_sanskrit_text" =>
             /\ ret'.outcome = "returned"
             /\ AllIn(ret'.input, Whitespace) =>
                   /\ ret'.val.detailed_output.value = "Please enter Sanskrit text to analyze"
                   /\ IsEmpty(ret'.val.summary)
                   /\ IsEmpty(ret'.val.triples_data)
                   /\ triples' = triples
             /\ ret'.raised =>
                   /\ ret'.val.detailed_output.value = "Analysis error: "
                   /\ IsEmpty(ret'.val.summary)
                   /\ IsEmpty(ret'.val.triples_data)
       /\ ret'.op = "search_vedic_corpus" =>
             /\ ret'.outcome = "returned"
             /\ AllIn(ret'.input, Whitespace) =>
                   /\ ret'.val.output.value = "Please enter a search query"
                   /\ IsEmpty(ret'.val.results_data)
             /\ ret'.raised =>
                   /\ ret'.val.output.value = "Search error: "
                   /\ IsEmpty(ret'.val.results_data)
             /\ triples' = triples
       /\ graph' = graph
       /\ analyses' = analyses
      ]_vars

(* a whitespace-only text answered with the message, on an analyzer that   *)
(* has analysed user input before                                          *)
C18_Witness ==
    /\ ret.op = "analyze_sanskrit_text"
    /\ ret.input = <<SPACE, 10>>
    /\ ret.val.detailed_output.value = "Please enter Sanskrit text to analyze"
    /\ Len(triples) > Len(TriplesOf(corpus_analyses))

---------------------------------------------------------------------------
(* Properties of the root scan of analyze_morphology.                      *)

MorphologyDone == ret.op = "analyze_morphology"

(* s without its viramas *)
StripVirama(s) == LET Kept(c) == c # VIRAMA IN SelectSeq(s, Kept)

Contains(hay, needle) ==
    \E i \in 1..(Len(hay) - Len(needle) + 1) : SubSeq(hay, i, i + Len(needle) - 1) = needle

BeginsWith(s, prefix) ==
    Len(prefix) <= Len(s) /\ SubSeq(s, 1, Len(prefix)) = prefix

(* the roots of the list returned, in order *)
RootsFound == [k \in 1..Len(ret.val.possible_roots) |-> ret.val.possible_roots[k].root]

RootsOf(entries) == [k \in 1..Len(entries) |-> entries[k].root]

(* C19 as stated: a root matches iff it is a substring of the token or the *)
(* token with the virama stripped starts with the root; possible_roots is  *)
(* the list, in table order, of all the roots that match.                  *)
C19_TokenStripped ==
    MorphologyDone =>
        LET word == ret.val.word
            Matches(entry) ==
                Contains(word, entry.root) \/ BeginsWith(StripVirama(word), entry.root)
        IN  RootsFound = RootsOf(SelectSeq(verb_roots, Matches))

(* C19 amended: a root matches iff it is a substring of the token or the   *)
(* token starts with the root with the virama stripped from the root;      *)
(* possible_roots is the list, in table order, of all the roots that       *)
(* match.                                                                  *)
C19_RootStripped ==
    MorphologyDone =>
        LET word == ret.val.word
            Matches(entry) ==
                Contains(word, entry.root) \/ BeginsWith(word, StripVirama(entry.root))
        IN  RootsFound = RootsOf(SelectSeq(verb_roots, Matches))

(* a token that starts with 'yaj' without its virama and holds 'i': two    *)
(* roots found, the first by the prefix test only                          *)
C19_Witness ==
    /\ MorphologyDone
    /\ Len(ret.val.possible_roots) = 2
    /\ ~Contains(ret.val.word, ret.val.possible_roots[1].root)
    /\ Contains(ret.val.word, ret.val.possible_roots[2].root)

---------------------------------------------------------------------------
(* Properties of the confidence of analyze_morphology.                     *)

(* C20: the confidence is 0.3 times the number of roots that match, plus   *)
(* 0.4 if at least one case-ending list matches; the case bonus is added   *)
(* once per token however many lists match.                                *)
C20_CaseBonusOnce ==
    MorphologyDone =>
        ret.val.confidence =
            RootBonus * Len(ret.val.possible_roots)
            + (IF MatchingLists(ret.val.word) # {} THEN CaseBonus ELSE 0)

---------------------------------------------------------------------------
(* Properties of the anchor of extract_semantic_triples.                   *)

Extracted == ret.op = "extract_semantic_triples"

(* the positions, in table order, of the verb roots the word matches *)
MatchedRoots(word) ==
    {r \in 1..Len(verb_roots) : RootMatches(verb_roots[r].root, word)}

(* the positions of the tokens that match a verb root *)
VerbTokens(words) == {i \in 1..Len(words) : MatchedRoots(words[i]) # {}}

Least(S) == CHOOSE x \in S : \A y \in S : x <= y

(* the words of s other than w, in order *)
Except(s, w) == SelectSeq(s, LAMBDA x : x # w)

(* C21: when a token of the sentence matches a verb root, the anchor is    *)
(* the first such token (the returned triples are those of every other     *)
(* word, in order) and every triple carries that token's first matched     *)
(* root in table order.                                                    *)
C21_FirstVerbTokenFirstRoot ==
    Extracted =>
        LET words == findall(ret.sentence)
        IN  VerbTokens(words) # {} =>
              LET anchor == words[Least(VerbTokens(words))]
                  root == verb_roots[Least(MatchedRoots(anchor))].root
              IN  /\ WordsOf(ret.val) = Except(words, anchor)
                  /\ \A k \in 1..Len(ret.val) : ret.val[k].verb_root = root

(* a sentence whose second token is the first to match a root, matches two *)
(* roots, and is followed by another token that matches a root             *)
C21_Witness ==
    /\ Extracted
    /\ LET words == findall(ret.sentence)
       IN  /\ Len(words) = 3
           /\ Least(VerbTokens(words) \cup {4}) = 2
           /\ Cardinality(MatchedRoots(words[2])) = 2
           /\ 3 \in VerbTokens(words)
           /\ Len(ret.val) = 2

(* some token holds one of the four praise patterns *)
PraiseTokens(words) ==
    {i \in 1..Len(words) :
        \E k \in 1..Len(PraisePatterns) : IsSubstring(PraisePatterns[k], words[i])}

(* C22: when no token yields an anchor the triples carry the root 'as' and *)
(* are those of the words other than the first token; for a sentence       *)
(* without tokens the anchor is 'unknown' and the call returns the empty   *)
(* list.  The call returns in every case.                                  *)
C22_DefaultRootFirstToken ==
    Extracted =>
        LET words == findall(ret.sentence)
        IN  (VerbTokens(words) = {} /\ PraiseTokens(words) = {}) =>
              IF words = <<>>
              THEN /\ ret.val = <<>>
                   /\ FindMainVerb(words).main_verb = UnknownWord
              ELSE /\ WordsOf(ret.val) = Except(words, words[1])
                   /\ \A k \in 1..Len(ret.val) : ret.val[k].verb_root = DefaultRoot
                   /\ FindMainVerb(words) = [main_verb |-> words[1], verb_root |-> DefaultRoot]

(* a sentence of three tokens, none matching a root, the first differing   *)
(* from the last: two triples with the root 'as'                           *)
C22_Witness ==
    /\ Extracted
    /\ LET words == findall(ret.sentence)
       IN  /\ Len(words) = 3
           /\ VerbTokens(words) = {}
           /\ words[1] # words[3]
           /\ Len(ret.val) = 2
           /\ ret.val[1].verb_root = DefaultRoot

---------------------------------------------------------------------------
(* Properties of the accumulator self.triples.                             *)

(* s begins with t *)
Extends(s, t) == Len(t) <= Len(s) /\ SubSeq(s, 1, Len(t)) = t

(* C23: after every call the accumulator is the concatenation, in call     *)
(* order, of the lists the calls of extract_semantic_triples returned (the *)
(* triples of the analyses made so far); a step only appends to it, and    *)
(* build_knowledge_graph and query_knowledge_graph leave it as it is.      *)
C23_AccumulatorIsConcatenation ==
    [][/\ triples' = TriplesOf(analyses')
       /\ Extends(triples', triples)
       /\ ret'.op \in {"build_knowledge_graph", "query_knowledge_graph"} =>
             triples' = triples
      ]_vars

(* a graph built and queried after two calls that each returned triples *)
C23_Witness ==
    /\ ret.op = "query_knowledge_graph"
    /\ Len(analyses) = 2
    /\ analyses[1].triples # <<>>
    /\ analyses[2].triples # <<>>
    /\ analyses[1].triples # analyses[2].triples
    /\ triples = analyses[1].triples \o analyses[2].triples

---------------------------------------------------------------------------
(* Properties of the relationship list of build_knowledge_graph.           *)

(* one record per triple of one analysis, in the order of its triples *)
RecordsOfAnalysis(analysis) ==
    [k \in 1..Len(analysis.triples) |->
        [verb |-> analysis.triples[k].verb_root,
         relation |-> analysis.triples[k].karaka,
         entity |-> analysis.triples[k].word,
         verse |-> analysis.reference,
         confidence |-> analysis.triples[k].confidence]]

(* the blocks of the analyses one after the other, in list order *)
RECURSIVE RecordsOf(_)
RecordsOf(as) ==
    IF as = <<>> THEN <<>> ELSE RecordsOfAnalysis(Head(as)) \o RecordsOf(Tail(as))

(* C24: the relationship list of a built graph is one record {verb,        *)
(* relation, entity, verse, confidence} per triple, the block of each      *)
(* analysis after the block of the one before it, as many records as       *)
(* triples; the list built from a longer list of analyses begins with the  *)
(* list built from the shorter one.                                        *)
C24_OneRelationshipPerTriple ==
    /\ JustBuilt =>
          /\ graph.relationships = RecordsOf(analyses)
          /\ Len(graph.relationships) = Len(TriplesOf(analyses))
    /\ Extends(RecordsOf(analyses), graph.relationships)

(* a graph of two analyses with different references and different         *)
(* triples, one record or more for each                                    *)
C24_Witness ==
    /\ JustBuilt
    /\ Len(analyses) = 2
    /\ analyses[1].reference # analyses[2].reference
    /\ analyses[1].triples # <<>>
    /\ analyses[2].triples # <<>>
    /\ analyses[1].triples # analyses[2].triples
    /\ Len(graph.relationships) >= 2

---------------------------------------------------------------------------
(* Properties of the domain buckets of build_knowledge_graph.              *)

(* the domains of the vocabulary *)
VocabularyDomains == {vedic_vocabulary[i].domain : i \in 1..Len(vedic_vocabulary)}

(* word is a vocabulary key recorded with the domain *)
HasDomain(word, domain) ==
    \E i \in 1..Len(vedic_vocabulary) :
        vedic_vocabulary[i].key = word /\ vedic_vocabulary[i].domain = domain

(* the references, in input order, of the triples whose word is a          *)
(* vocabulary key of the domain                                            *)
ReferencesIn(domain, as) ==
    LET InDomain(o) == HasDomain(o.word, domain)
        os == SelectSeq(Occurs(as), InDomain)
    IN  [k \in 1..Len(os) |-> os[k].reference]

(* C25: in a built graph the bucket of a domain d holds one verse          *)
(* reference per input triple whose word is a vocabulary key of domain d,  *)
(* in input order, so it is as long as the number of those triples; a      *)
(* domain has a bucket only if there is such a triple, and triples of      *)
(* words outside the vocabulary add to no bucket.                          *)
C25_BucketPerResolvedTriple ==
    JustBuilt =>
        /\ DOMAIN graph.domains =
              {d \in VocabularyDomains : ReferencesIn(d, analyses) # <<>>}
        /\ \A d \in DOMAIN graph.domains :
              /\ graph.domains[d] = ReferencesIn(d, analyses)
              /\ Len(graph.domains[d]) =
                    Cardinality({k \in 1..Len(Occurs(analyses)) :
                                    HasDomain(Occurs(analyses)[k].word, d)})

(* a graph with two buckets, one of them with two references of one verse  *)
(* and one of another, built from triples one of which is outside the      *)
(* vocabulary                                                              *)
C25_Witness ==
    /\ JustBuilt
    /\ DOMAIN graph.domains = {"soma", "philosophy"}
    /\ Len(graph.domains["philosophy"]) = 3
    /\ Cardinality({graph.domains["philosophy"][k] : k \in 1..3}) = 2
    /\ \E k \in 1..Len(triples) : ~InVocabulary(triples[k].word)

---------------------------------------------------------------------------
(* Properties of the confidence of an analysis.                            *)

(* the confidences of the triples added up from the first to the last *)
TotalConfidence(ts) ==
    LET total[k \in 0..Len(ts)] == IF k = 0 THEN 0 ELSE total[k - 1] + ts[k].confidence
    IN  total[Len(ts)]

(* C26: the confidence of a returned analysis, a fraction num/den, is the  *)
(* sum of the confidences of its triples divided by their number, and is   *)
(* 0 when the analysis has no triples.                                     *)
C26_ConfidenceIsMean ==
    Analysed =>
        LET analysis == ret.val
        IN  /\ analysis.confidence.den > 0
            /\ IF analysis.triples = <<>>
               THEN analysis.confidence.num = 0
               ELSE analysis.confidence.num * Len(analysis.triples) =
                       TotalConfidence(analysis.triples) * analysis.confidence.den

(* an analysis of two triples of different confidences, and three words *)
C26_Witness ==
    /\ Analysed
    /\ Len(LastWords) = 3
    /\ Len(ret.val.triples) = 2
    /\ ret.val.triples[1].confidence # ret.val.triples[2].confidence
    /\ ret.val.confidence.num * 2 =
          (ret.val.triples[1].confidence + ret.val.triples[2].confidence) *
          ret.val.confidence.den

---------------------------------------------------------------------------
(* Properties of the praise fallback.                                      *)

(* the keys of self.verb_roots *)
RootKeys == {verb_roots[i].root : i \in 1..Len(verb_roots)}

(* C27: every praise pattern is a key of the verb-root table, so a         *)
(* sentence none of whose tokens matches a verb root has no token that     *)
(* holds a pattern; every triple carries a root matched in the anchor (a   *)
(* token left out of the result), or the default 'as' with the first token *)
(* as the anchor.                                                          *)
C27_PraiseFallbackNeverDecides ==
    Extracted =>
        LET words == findall(ret.sentence)
            emitted == {ret.val[k].word : k \in 1..Len(ret.val)}
        IN  /\ \A k \in 1..Len(PraisePatterns) : PraisePatterns[k] \in RootKeys
            /\ VerbTokens(words) = {} => PraiseTokens(words) = {}
            /\ \A k \in 1..Len(ret.val) :
                  \/ \E i \in 1..Len(words) :
                        /\ words[i] \notin emitted
                        /\ \E r \in MatchedRoots(words[i]) :
                              ret.val[k].verb_root = verb_roots[r].root
                  \/ /\ ret.val[k].verb_root = DefaultRoot
                     /\ WordsOf(ret.val) = Except(words, words[1])

(* a sentence whose anchor holds a praise pattern and whose triples carry  *)
(* a root of the anchor that is neither 'stu' nor 'as'                     *)
C27_Witness ==
    /\ Extracted
    /\ LET words == findall(ret.sentence)
       IN  /\ Len(ret.val) >= 1
           /\ \E i \in PraiseTokens(words) :
                 /\ i = Least(VerbTokens(words))
                 /\ \A k \in 1..Len(ret.val) : ret.val[k].word # words[i]
           /\ ret.val[1].verb_root \notin {PraiseRoot, DefaultRoot}

---------------------------------------------------------------------------
(* Properties of the entity records of build_knowledge_graph.              *)

(* the relationship records of an entity, in list order *)
RecordsFor(entity, relationships) ==
    SelectSeq(relationships, LAMBDA r : r.entity = entity)

(* C28: in a built graph the verses and the relations of an entity are as  *)
(* long as the list of the relationship records of that entity, and their  *)
(* i-th elements are the verse and the relation of its i-th record; the    *)
(* entity of every relationship record is a key of entities.               *)
C28_EntityListsMatchRelationships ==
    /\ \A entity \in DOMAIN graph.entities :
          LET records == RecordsFor(entity, graph.relationships)
              info == graph.entities[entity]
          IN  /\ Len(info.verses) = Len(records)
              /\ Len(info.relations) = Len(records)
              /\ \A i \in 1..Len(records) :
                    /\ info.verses[i] = records[i].verse
                    /\ info.relations[i] = records[i].relation
    /\ \A k \in 1..Len(graph.relationships) :
          graph.relationships[k].entity \in DOMAIN graph.entities

(* a graph with an entity of three records, of two verse references, and   *)
(* with other entities between them                                        *)
C28_Witness ==
    /\ JustBuilt
    /\ Cardinality(DOMAIN graph.entities) >= 3
    /\ \E entity \in DOMAIN graph.entities :
          LET records == RecordsFor(entity, graph.relationships)
          IN  /\ Len(records) = 3
              /\ Cardinality({records[i].verse : i \in 1..3}) = 2
              /\ Len(graph.relationships) > 3

---------------------------------------------------------------------------
(* Independence of an analysis from the calls made before it.              *)

(* C29: two analyses of the same sentence made on one analyzer have the    *)
(* same triples, semantic field and confidence, whatever was analysed in   *)
(* between, and with the same reference they are the same analysis; each   *)
(* is what a new analyzer returns for the sentence.                        *)
C29_AnalysisDependsOnSentenceOnly ==
    \A i, j \in 1..Len(analyses) :
        analyses[i].sanskrit = analyses[j].sanskrit =>
            /\ analyses[i].triples = analyses[j].triples
            /\ analyses[i].semantic_field = analyses[j].semantic_field
            /\ analyses[i].confidence = analyses[j].confidence
            /\ analyses[i].reference = analyses[j].reference => analyses[i] = analyses[j]
            /\ i = 1 => analyses[j].triples = extract_semantic_triples(analyses[i].sanskrit)

(* a sentence analysed first and third, with triples, and another sentence *)
(* with triples analysed in between                                        *)
C29_Witness ==
    /\ Analysed
    /\ Len(analyses) = 3
    /\ analyses[1].sanskrit = analyses[3].sanskrit
    /\ analyses[2].sanskrit # analyses[1].sanskrit
    /\ analyses[1].triples # <<>>
    /\ analyses[2].triples # <<>>
    /\ Len(triples) = 2 * Len(analyses[1].triples) + Len(analyses[2].triples)

---------------------------------------------------------------------------
(* The frame of analyze_sanskrit_text.                                     *)

(* self.knowledge_graph as _initialize_corpus leaves it *)
InitialGraph == build_knowledge_graph(corpus_analyses)

(* C30: whatever texts the user had analysed, the knowledge graph and      *)
(* corpus_analyses are those of the initialisation and only the            *)
(* accumulator of the analyzer has grown, so a search and an exploration   *)
(* return what they return on the initial graph.                           *)
C30_UserAnalysesLeaveCorpus ==
    /\ graph = InitialGraph
    /\ analyses = corpus_analyses
    /\ Extends(triples, TriplesOf(corpus_analyses))
    /\ (ret.op = "search_vedic_corpus" /\ ~ret.raised /\ strip(ret.input) # <<>>) =>
          ret.val.results_data =
             List(ResultsData(query_knowledge_graph(strip(ret.input), InitialGraph)))
    /\ ret.op = "explore_entity" => ret.val = explore_entity(ret.input, InitialGraph)

(* a search that found results, made after user analyses had added triples *)
(* to the analyzer                                                         *)
C30_Witness ==
    /\ ret.op = "search_vedic_corpus"
    /\ ~ret.raised
    /\ Len(triples) = Len(TriplesOf(corpus_analyses)) + MaxAdded
    /\ ret.val.results_data.value # <<>>

=============================================================================
